---- MODULE Spec2Model ----
(***************************************************************************)
(* Order-fulfilment saga of the 3FA checkout-to-minting flow:              *)
(*   - the orders/create webhook intake (webhooks.app.orders-create.ts),   *)
(*   - the BullMQ order processor (orderProcessor.worker.ts),              *)
(*   - DigitalIdService (digital-id.service) and the minting service       *)
(*     (token-minting.service.ts).                                         *)
(* The relational store is modelled as sequences of rows (a row's id is    *)
(* its index), the queue as a set of jobs keyed by jobId.                  *)
(***************************************************************************)
EXTENDS Integers, Sequences, FiniteSets, TLC

VARIABLES
    env,               \* process environment and the shop's order: fixed
    webhookEvents,     \* table WebhookEvent
    queue,             \* jobs of the order-processing queue
    response,          \* the Response of the last intake call
    lastIntake,        \* what the last intake call was about
    shopifyCustomers,  \* table ShopifyCustomer (keys)
    users3fa,          \* table User3fa: phone -> wallet binding
    orders3fa,         \* table Orders3fa
    shopifyOrders,     \* table ShopifyOrder (keys)
    shopifyLineItems,  \* table ShopifyLineItem
    digitalIds,        \* table UniqueDigitalId
    worker,            \* per worker: position in processor and its locals
    pendingFailed,     \* unawaited writes started by the 'failed' listener
    faults,            \* raises of the store and the providers so far
    lastIssue,         \* result of the last createDigitalIdsForOrder call
    phIn, phOut,       \* phone-extraction harness: input tuple and result
    issue,             \* issuance harness: calls made and the first result
    mintJob            \* minting of one UniqueDigitalId, step by step

vars == << env, webhookEvents, queue, response, lastIntake,
           shopifyCustomers, users3fa, orders3fa, shopifyOrders,
           shopifyLineItems, digitalIds, worker, pendingFailed, faults,
           lastIssue, phIn, phOut, issue, mintJob >>

sagaVars == << env, webhookEvents, queue, response, lastIntake,
               shopifyCustomers, users3fa, orders3fa, shopifyOrders,
               shopifyLineItems, digitalIds, worker, pendingFailed,
               faults, lastIssue >>

-----------------------------------------------------------------------------
(* Bounds of the model *)

MaxEvents == 2      \* WebhookEvent rows stored in one run
MaxAttempts == 2    \* attempts the queue gives a job
MaxFaults == 1      \* raises of the store and the providers in one run
MaxCalls == 3       \* calls of createDigitalIdsForOrder for one order
MaxStalls == 1      \* times the queue reclaims a job as stalled
MaxApiCalls == 1    \* calls of the status setters on one UniqueDigitalId
MaxClock == 0       \* Date.now() takes the values 0..MaxClock

(* Program constants *)

WORKER_CONCURRENCY == 1
HTTP_OK == 200

Null == "null"      \* null / undefined / absent

Workers == 1..WORKER_CONCURRENCY

-----------------------------------------------------------------------------
(* Payloads *)

\* A JavaScript value is truthy unless it is null, undefined or "".
Truthy(x) == x # Null /\ x # ""

\* a ?? b
Coalesce(a, b) == IF a # Null THEN a ELSE b

\* Intake lines 113-117, worker lines 137-141: a chain of ?? over the four
\* payload locations.
CoalesceChain(direct, shipping, billing, customer) ==
    Coalesce(direct, Coalesce(shipping, Coalesce(billing, customer)))

ExtractPhone(p) ==
    CoalesceChain(p.phone, p.shipping_phone, p.billing_phone, p.customer_phone)

\* Variant references carried by line items, and what the catalog
\* (CoreProductVariant) holds for them.
VariantOk == "v-ok"            \* in the catalog, with brand linkage
VariantMissing == "v-missing"  \* not in the catalog
VariantNoBrand == "v-nobrand"  \* in the catalog, brand_3fa_id missing

LineItem(id, q, v) == [id |-> id, quantity |-> q, variant_id |-> v]

\* Line item ids are unique across orders, as the platform's are.
ItemsOf(oid, shape) ==
    [ k \in 1..Len(shape) |->
        LineItem(oid * 10 + k, shape[k][2], shape[k][1]) ]

MkPayload(oid, ph, shape) ==
    [ kind |-> "object", id_type |-> "number", id |-> oid,
      phone |-> ph[1], shipping_phone |-> ph[2],
      billing_phone |-> ph[3], customer_phone |-> ph[4],
      customer_id |-> IF ph[1] = Null THEN Null ELSE "c7",
      line_items |-> ItemsOf(oid, shape) ]

DirectPhone == << "+1555", Null, Null, Null >>

\* The order documents the platform may hold for the shop's order: where the
\* phone is, and the line items as (variant reference, quantity).
Payloads ==
    { MkPayload(1001, DirectPhone, << << VariantOk, 2 >> >>),
      MkPayload(1001, DirectPhone,
                << << VariantOk, 1 >>, << VariantOk, 1 >>,
                   << VariantMissing, 1 >> >>),
      MkPayload(1001, DirectPhone,
                << << VariantMissing, 1 >>, << VariantNoBrand, 2 >> >>),
      MkPayload(1001, DirectPhone, << << Null, 1 >>, << VariantOk, 1 >> >>),
      MkPayload(1001, DirectPhone,
                << << VariantMissing, 1 >>, << VariantNoBrand, 1 >>,
                   << VariantOk, 1 >> >>),
      MkPayload(1001, DirectPhone, << >>),
      MkPayload(1001, << Null, Null, Null, Null >>, << << VariantOk, 2 >> >>),
      MkPayload(1001, << "", "+1555", Null, Null >>,
                << << VariantOk, 2 >> >>) }

\* What authenticate.webhook can hand to the handler instead of an order: a
\* document without a numeric id, or nothing.
NoIdPayload ==
    [ MkPayload(0, DirectPhone, << >>) EXCEPT !.id_type = "undefined" ]
NoPayload == [ kind |-> "null" ]

-----------------------------------------------------------------------------
(* Topics: strings over a small alphabet, so that toLowerCase() and the     *)
(* replacement of "_" by "/" are computed.                                  *)

TopicOrdersCreate == << "orders", "/", "create" >>

LowerWord(wd) ==
    CASE wd = "ORDERS" -> "orders"
      [] wd = "CREATE" -> "create"
      [] wd = "UPDATED" -> "updated"
      [] OTHER -> wd

\* topic.toLowerCase().replace(/_/g, '/')
NormalizeTopic(t) ==
    [ i \in 1..Len(t) |->
        IF LowerWord(t[i]) = "_" THEN "/" ELSE LowerWord(t[i]) ]

-----------------------------------------------------------------------------
(* Store and queue primitives *)

\* The unique index on WebhookEvent.eventId (the dedup key is a unique insert
\* key).
UniqueEventId == TRUE

\* The unique index on UniqueDigitalId.shopifyLineItemId, which the service
\* looks records up by with findUnique.
UniqueLineItemId == TRUE

EventIdStored(events, eventId) ==
    \E i \in 1..Len(events) : events[i].eventId = eventId

\* prisma.webhookEvent.create: the new table, or a raised error on a
\* violated unique index.
WebhookEventCreateNoIndex(events, row) ==
    [ raised |-> FALSE, rows |-> Append(events, row) ]

WebhookEventCreate(events, row) ==
    IF UniqueEventId /\ EventIdStored(events, row.eventId)
    THEN [ raised |-> TRUE, rows |-> events ]
    ELSE [ raised |-> FALSE, rows |-> Append(events, row) ]

JobIdOf(shop, orderId) == << "order", shop, orderId >>

JobIdTaken(q, jobId) == \E i \in 1..Len(q) : q[i].id = jobId

\* Queue.add without the jobId option: every call adds a job.
QueueAddAlways(q, jobId, data) ==
    Append(q, [ id |-> jobId, data |-> data, state |-> "waiting",
                attemptsMade |-> 0, stalledCounter |-> 0 ])

\* Queue.add with a custom jobId: a job whose id the queue already holds is
\* not added again, and the call does not raise.
QueueAdd(q, jobId, data) ==
    IF JobIdTaken(q, jobId)
    THEN q
    ELSE Append(q, [ id |-> jobId, data |-> data, state |-> "waiting",
                     attemptsMade |-> 0, stalledCounter |-> 0 ])

-----------------------------------------------------------------------------
(* Event intake: action() of webhooks.app.orders-create.ts *)

Respond(status, body) == [ status |-> status, body |-> body ]

NoPhoneNote == << "Skipped: No customer phone number found in payload." >>

\* The catch block of action(), lines 175-193.
CatchResponseRethrow == Respond(500, "uncaught")

CatchResponse ==
    Respond(HTTP_OK, "Error processing webhook internally, acknowledged.")

\* eventIdHeader ?? `generated_${Date.now()}_${shopifyOrderIdNum}`
EventIdOf(hdr, now, orderId) ==
    IF hdr # Null THEN << "hdr", hdr >> ELSE << "generated", now, orderId >>

NewWebhookEvent(shop, topic, payload, eventId) ==
    [ eventId |-> eventId, shopId |-> shop, topic |-> topic,
      payload |-> payload, processed |-> FALSE, processedAt |-> FALSE,
      lastError |-> << >>, errorCount |-> 0 ]

\* The no-phone branch, lines 119-133, marks the event and enqueues nothing.
MarkSkippedAndEnqueue(events, q, id) ==
    [ events |-> [ events EXCEPT ![id].lastError = NoPhoneNote ],
      queue |-> QueueAdd(q, JobIdOf(events[id].shopId, events[id].payload.id),
                         [ webhookEventId |-> id ]),
      response |-> Respond(HTTP_OK, "Acknowledged, no phone number.") ]

MarkSkipped(events, q, id) ==
    [ events |-> [ events EXCEPT ![id].processed = TRUE,
                                 ![id].processedAt = TRUE,
                                 ![id].lastError = NoPhoneNote ],
      queue |-> q,
      response |-> Respond(HTTP_OK, "Acknowledged, no phone number.") ]

\* Lines 141-174: enqueue one job that carries only the event's id.
Enqueue(events, q, id, fault) ==
    IF fault = "add"
    THEN [ events |-> events, queue |-> q, response |-> CatchResponse ]
    ELSE [ events |-> events,
           queue |-> QueueAdd(q,
                        JobIdOf(events[id].shopId, events[id].payload.id),
                        [ webhookEventId |-> id ]),
           response |-> Respond(HTTP_OK, Null) ]

\* An intake that enqueues every stored event, with or without a phone.
StoreAndEnqueueUnchecked(events, q, now, hdr, shop, topic, payload, fault) ==
    LET eventId == EventIdOf(hdr, now, payload.id)
        row == NewWebhookEvent(shop, NormalizeTopic(topic), payload, eventId)
        created == IF fault = "create"
                   THEN [ raised |-> TRUE, rows |-> events ]
                   ELSE WebhookEventCreate(events, row)
    IN  IF created.raised
        THEN [ events |-> events, queue |-> q, response |-> CatchResponse ]
        ELSE Enqueue(created.rows, q, Len(created.rows), fault)

\* Lines 88-174, after the context has been validated.
StoreAndEnqueue(events, q, now, hdr, shop, topic, payload, fault) ==
    LET eventId == EventIdOf(hdr, now, payload.id)
        row == NewWebhookEvent(shop, NormalizeTopic(topic), payload, eventId)
        created == IF fault = "create"
                   THEN [ raised |-> TRUE, rows |-> events ]
                   ELSE WebhookEventCreate(events, row)
    IN  IF created.raised
        THEN [ events |-> events, queue |-> q, response |-> CatchResponse ]
        ELSE IF ~Truthy(ExtractPhone(payload))
        THEN MarkSkipped(created.rows, q, Len(created.rows))
        ELSE Enqueue(created.rows, q, Len(created.rows), fault)

\* action() with the check of payload.id (lines 63-70) left out.
ActionNoIdCheck(events, q, now, hdr, auth, shop, topic, payload, fault) ==
    IF auth = "raise"
    THEN [ events |-> events, queue |-> q, response |-> CatchResponse ]
    ELSE IF ~Truthy(shop) \/ topic = << >> \/ payload.kind # "object"
    THEN [ events |-> events, queue |-> q,
           response |-> Respond(HTTP_OK, "Invalid payload") ]
    ELSE IF NormalizeTopic(topic) # TopicOrdersCreate
    THEN [ events |-> events, queue |-> q,
           response |-> Respond(HTTP_OK, Null) ]
    ELSE StoreAndEnqueue(events, q, now, hdr, shop, topic, payload, fault)

\* action(), lines 29-194: the new WebhookEvent table, the new queue and the
\* Response returned.
Action(events, q, now, hdr, auth, shop, topic, payload, fault) ==
    IF auth = "raise"
    THEN [ events |-> events, queue |-> q, response |-> CatchResponse ]
    ELSE IF ~Truthy(shop) \/ topic = << >> \/ payload.kind # "object"
    THEN [ events |-> events, queue |-> q,
           response |-> Respond(HTTP_OK, "Invalid payload") ]
    ELSE IF payload.id_type # "number"
    THEN [ events |-> events, queue |-> q,
           response |-> Respond(HTTP_OK, "Invalid payload - Missing Order ID") ]
    ELSE IF NormalizeTopic(topic) # TopicOrdersCreate
    THEN [ events |-> events, queue |-> q,
           response |-> Respond(HTTP_OK, Null) ]
    ELSE StoreAndEnqueue(events, q, now, hdr, shop, topic, payload, fault)

Headers == { Null, "wh-1" }
IntakeFaults == { "none", "create", "add" }

\* The calls the platform makes: deliveries of the shop's order, and calls
\* that fail authentication or carry a broken context.
GoodRequest(payload) ==
    [ hdr |-> "wh-1", auth |-> "ok", shop |-> "s1",
      topic |-> TopicOrdersCreate, payload |-> payload, fault |-> "none",
      now |-> 0 ]

Requests(payload) ==
    { [ GoodRequest(payload) EXCEPT !.hdr = h, !.fault = f ] :
        h \in Headers, f \in IntakeFaults }
    \cup { [ GoodRequest(payload) EXCEPT !.hdr = Null, !.now = n ] :
             n \in 0..MaxClock }
    \cup { [ GoodRequest(payload) EXCEPT !.topic =
                                        << "ORDERS", "_", "CREATE" >> ],
           [ GoodRequest(payload) EXCEPT !.auth = "raise" ],
           [ GoodRequest(payload) EXCEPT !.shop = "" ],
           [ GoodRequest(payload) EXCEPT !.topic = << >> ],
           [ GoodRequest(payload) EXCEPT !.topic =
                                        << "orders", "/", "updated" >> ],
           [ GoodRequest(payload) EXCEPT !.payload = NoPayload ],
           [ GoodRequest(payload) EXCEPT !.payload = NoIdPayload ] }

RequestValid(rq) ==
    /\ rq.auth = "ok" /\ Truthy(rq.shop) /\ rq.topic # << >>
    /\ rq.payload.kind = "object" /\ rq.payload.id_type = "number"
    /\ NormalizeTopic(rq.topic) = TopicOrdersCreate

\* The call reached queue.add (lines 146-153) and the add returned: the
\* request is valid, its event was stored, it carries a phone and the queue
\* did not raise.
AddReturned(rq, stored) ==
    /\ RequestValid(rq)
    /\ stored
    /\ Truthy(ExtractPhone(rq.payload))
    /\ rq.fault = "none"

\* One call of action(), with the Response and what the call did observed.
Intake(rq) ==
    /\ LET r == Action(webhookEvents, queue, rq.now, rq.hdr, rq.auth, rq.shop,
                       rq.topic, rq.payload, rq.fault)
       IN  /\ Len(r.events) <= MaxEvents
           /\ webhookEvents' = r.events
           /\ queue' = r.queue
           /\ response' = r.response
           /\ lastIntake' =
                [ replay |-> /\ RequestValid(rq)
                             /\ rq.fault # "create"
                             /\ EventIdStored(webhookEvents,
                                   EventIdOf(rq.hdr, rq.now, rq.payload.id)),
                  changed |-> r.events # webhookEvents \/ r.queue # queue,
                  malformed |-> \/ rq.payload.kind # "object"
                                \/ rq.payload.id_type # "number",
                  enqueued |-> r.queue # queue,
                  added |-> AddReturned(rq, r.events # webhookEvents),
                  key |-> IF AddReturned(rq, r.events # webhookEvents)
                          THEN JobIdOf(rq.shop, rq.payload.id)
                          ELSE << >> ]
    /\ UNCHANGED << env, shopifyCustomers, users3fa, orders3fa,
                    shopifyOrders, shopifyLineItems, digitalIds, worker,
                    pendingFailed, faults, lastIssue, phIn, phOut, issue, mintJob >>

\* One call of action() while the worker runs: its writes to the store and
\* the queue.
Deliver(rq) ==
    /\ LET r == Action(webhookEvents, queue, rq.now, rq.hdr, rq.auth, rq.shop,
                       rq.topic, rq.payload, rq.fault)
       IN  /\ Len(r.events) <= MaxEvents
           /\ webhookEvents' = r.events
           /\ queue' = r.queue
    /\ UNCHANGED << env, response, lastIntake, shopifyCustomers, users3fa,
                    orders3fa, shopifyOrders, shopifyLineItems, digitalIds,
                    worker, pendingFailed, faults, lastIssue, phIn, phOut, issue, mintJob >>

-----------------------------------------------------------------------------
(* Minting: mintDigitalIdOnBase of token-minting.service.ts *)

\* What the chain does with the two candidate methods of one contract:
\* mintTo succeeds, mintTo raises and safeMint succeeds, or both raise.
ChainOutcomes == { "mintTo", "safeMint", "none" }

\* Which candidate calls the contract accepts: both, safeMint only, none.
MethodSucceeds(chain, method) ==
    chain = "mintTo" \/ (chain = "safeMint" /\ method = "safeMint")

\* Lines 113-116: the candidate methods, in the order they are tried.
MintMethods == << "mintTo", "safeMint" >>

TxOf(method) == IF method = "mintTo" THEN "tx-mintTo" ELSE "tx-safeMint"
ErrOf(method) == IF method = "mintTo" THEN "err-mintTo" ELSE "err-safeMint"

\* The loop without its break: every candidate is called and the receipt
\* of the last success is kept.
RECURSIVE TryAllFrom(_, _, _)
TryAllFrom(chain, k, acc) ==
    IF k > Len(MintMethods) THEN acc
    ELSE LET m == MintMethods[k]
         IN  IF MethodSucceeds(chain, m)
             THEN TryAllFrom(chain, k + 1,
                     [ ok |-> TRUE, tx |-> TxOf(m),
                       calls |-> Append(acc.calls, m), lastError |-> Null ])
             ELSE TryAllFrom(chain, k + 1,
                     [ acc EXCEPT !.calls = Append(acc.calls, m),
                                  !.lastError = ErrOf(m) ])

\* The loop keeping the error of the first candidate that failed.
RECURSIVE TryFromFirstError(_, _, _)
TryFromFirstError(chain, k, acc) ==
    IF k > Len(MintMethods) THEN acc
    ELSE LET m == MintMethods[k]
         IN  IF MethodSucceeds(chain, m)
             THEN [ ok |-> TRUE, tx |-> TxOf(m),
                    calls |-> Append(acc.calls, m), lastError |-> Null ]
             ELSE TryFromFirstError(chain, k + 1,
                     [ acc EXCEPT !.calls = Append(acc.calls, m),
                                  !.lastError = IF acc.lastError = Null
                                                THEN ErrOf(m)
                                                ELSE acc.lastError ])

\* Lines 118-129: the loop from candidate k on; acc carries the calls made
\* and the last error.
RECURSIVE TryFrom(_, _, _)
TryFrom(chain, k, acc) ==
    IF k > Len(MintMethods) THEN acc
    ELSE LET m == MintMethods[k]
         IN  IF MethodSucceeds(chain, m)
             THEN [ ok |-> TRUE, tx |-> TxOf(m),
                    calls |-> Append(acc.calls, m), lastError |-> Null ]
             ELSE TryFrom(chain, k + 1,
                     [ acc EXCEPT !.calls = Append(acc.calls, m),
                                  !.lastError = ErrOf(m) ])

NoReceipt ==
    [ ok |-> FALSE, tx |-> Null, calls |-> << >>, lastError |-> Null ]

\* Lines 110-129: the candidates in order, the first success wins.
TryMintMethods(chain) == TryFrom(chain, 1, NoReceipt)

\* The environment of the minting service: THIRDWEB_CLIENT_ID,
\* BASE_MINTER_PRIVATE_KEY (absent, malformed or well-formed), APP_BASE_URL
\* and DEFAULT_CONTRACT_ADDRESS.
MintConfigs ==
    [ clientId : { Null, "client" }, privateKey : { Null, "bad", "good" },
      appBaseUrl : { Null, "https://app" },
      defaultContract : { Null, "0xDefault" } ]

FullConfig ==
    [ clientId |-> "client", privateKey |-> "good",
      appBaseUrl |-> "https://app", defaultContract |-> Null ]

\* ensureEnv, lines 17-41: the error it throws, << >> when it returns.
EnsureEnv(cfg) ==
    IF ~Truthy(cfg.clientId)
    THEN << "THIRDWEB_CLIENT_ID is required for minting" >>
    ELSE IF ~Truthy(cfg.privateKey)
    THEN << "BASE_MINTER_PRIVATE_KEY is required for minting" >>
    ELSE IF ~Truthy(cfg.appBaseUrl)
    THEN << "APP_BASE_URL is required to build token metadata URLs" >>
    ELSE IF cfg.privateKey # "good"
    THEN << "Invalid private key format" >>
    ELSE << >>

\* Lines 86-90: the record's address, else the variant's default, else the
\* global default.
ResolveContract(row, variantContract, cfg) ==
    IF Truthy(row.contractAddress) THEN row.contractAddress
    ELSE IF Truthy(variantContract) THEN variantContract
    ELSE cfg.defaultContract

NoRecipient ==
    << "Recipient wallet address (privyWalletAddress) is missing" >>
NoContract ==
    << "No contract address found for minting (set default or per-variant)" >>

\* The try block without the checks of the recipient and of the contract.
MintAttemptNoPreflight(row, variantContract, cfg, chain) ==
    IF EnsureEnv(cfg) # << >>
    THEN [ error |-> EnsureEnv(cfg), calls |-> << >>, tx |-> Null,
           contract |-> Null ]
    ELSE LET r == TryFrom(chain, 1, NoReceipt)
         IN  [ error |-> IF r.ok THEN << >>
                         ELSE << "Mint transaction failed", r.lastError >>,
               calls |-> r.calls,
               tx |-> r.tx,
               contract |-> row.contractAddress ]

\* The try block of mintDigitalIdOnBase up to the receipt, lines 57-138: the
\* error thrown (<< >> when none), the chain calls made, the transaction
\* hash and the contract used.
MintAttempt(row, variantContract, cfg, chain) ==
    LET none == [ error |-> << >>, calls |-> << >>, tx |-> Null,
                  contract |-> Null ]
    IN  IF EnsureEnv(cfg) # << >>
        THEN [ none EXCEPT !.error = EnsureEnv(cfg) ]
        ELSE IF ~Truthy(row.privyWalletAddress)
        THEN [ none EXCEPT !.error = NoRecipient ]
        ELSE IF ~Truthy(ResolveContract(row, variantContract, cfg))
        THEN [ none EXCEPT !.error = NoContract ]
        ELSE LET r == TryMintMethods(chain)
             IN  [ error |-> IF r.ok THEN << >>
                             ELSE << "Mint transaction failed", r.lastError >>,
                   calls |-> r.calls,
                   tx |-> r.tx,
                   contract |-> ResolveContract(row, variantContract, cfg) ]

NoResult == [ returned |-> FALSE ]

\* Lines 140-171: the write of the outcome and the value returned. A write
\* of MINTED that raises lands in the catch like any other error; a write
\* of MINT_FAILED that raises is logged and dropped.
MintRecord(row, attempt, mintedWriteOk, failedWriteOk) ==
    IF attempt.error = << >> /\ mintedWriteOk
    THEN [ row |-> [ row EXCEPT !.status = "MINTED",
                                !.transactionHash = attempt.tx,
                                !.contractAddress = attempt.contract ],
           raised |-> FALSE,
           result |-> [ returned |-> TRUE, success |-> TRUE,
                        transactionHash |-> attempt.tx, error |-> << >> ] ]
    ELSE [ row |-> IF failedWriteOk
                   THEN [ row EXCEPT !.status = "MINT_FAILED" ]
                   ELSE row,
           raised |-> FALSE,
           result |-> [ returned |-> TRUE, success |-> FALSE,
                        transactionHash |-> Null,
                        error |-> IF attempt.error = << >>
                                  THEN << "store error" >>
                                  ELSE attempt.error ] ]

\* mintDigitalIdOnBase, lines 49-172, with the environment set and the
\* store healthy: the record after the call.
MintDigitalIdOnBase(row, chain) ==
    MintRecord(row, MintAttempt(row, Null, FullConfig, chain), TRUE, TRUE).row

-----------------------------------------------------------------------------
(* DigitalIdService: createDigitalIdsForOrder and queueTokenMinting *)

\* prisma.coreProductVariant.findFirst: the catalog row of a variant.
CoreVariantFound(variantId) == variantId \in { VariantOk, VariantNoBrand }
CoreVariantBrand(variantId) == IF variantId = VariantOk THEN "brand" ELSE Null
CoreVariantContract(variantId) == "0xContract"

DigitalIdStored(tbl, key) ==
    \E i \in 1..Len(tbl) : tbl[i].shopifyLineItemId = key

\* The line item's GID for every unit, never qualified.
UniqueLineItemIdUnqualified(lineItem, i) == << "LineItem", lineItem.id, 0 >>

\* Lines 247-253: the line item's GID, qualified by the unit index when the
\* quantity is above one.
UniqueLineItemIdOf(lineItem, i) ==
    IF lineItem.quantity > 1
    THEN << "LineItem", lineItem.id, i + 1 >>
    ELSE << "LineItem", lineItem.id, 0 >>

\* queueTokenMinting, lines 299-331: MINT_PENDING first, then the mint when
\* the environment is configured.
PendingWriteKeepsStatus(row) == row

\* Lines 302-307: the write of MINT_PENDING.
PendingWrite(row) == [ row EXCEPT !.status = "MINT_PENDING" ]

\* Line 311: the check of the environment before the mint.
EnvPresentIgnored(cfg) == TRUE

EnvPresent(cfg) ==
    Truthy(cfg.privateKey) /\ Truthy(cfg.clientId) /\ Truthy(cfg.appBaseUrl)

\* A trigger that writes MINT_PENDING and never mints.
QueueTokenMintingPendingOnly(row, mintConfigured, chain) == PendingWrite(row)

QueueTokenMinting(row, mintConfigured, chain) ==
    LET pending == PendingWrite(row)
    IN  IF ~mintConfigured THEN pending
        ELSE MintDigitalIdOnBase(pending, chain)

NewDigitalId(args, lineItem, key) ==
    [ shopifyLineItemId |-> key,
      shopifyOrderId |-> args.shopifyOrderId,
      owner3faId |-> args.owner3faId,
      orders3faId |-> args.orders3faId,
      privyWalletAddress |-> args.privyWalletAddress,
      status |-> "CREATED",
      contractAddress |-> CoreVariantContract(lineItem.variant_id),
      transactionHash |-> Null ]

\* prisma.uniqueDigitalId.create: raises on a violated unique index, or when
\* the store fails for this key.
DigitalIdCreateRaisesNoIndex(tbl, key, faultKey) == key = faultKey

DigitalIdCreateRaises(tbl, key, faultKey) ==
    (UniqueLineItemId /\ DigitalIdStored(tbl, key)) \/ key = faultKey

\* The inner loop, lines 246-283, from unit i on: the table, the number of
\* records created and whether a create raised.
RECURSIVE IssueUnits(_, _, _, _, _, _)
IssueUnits(tbl, args, lineItem, i, faultKey, mint) ==
    IF i >= lineItem.quantity
    THEN [ tbl |-> tbl, created |-> 0, raised |-> FALSE ]
    ELSE LET key == UniqueLineItemIdOf(lineItem, i)
         IN  IF DigitalIdCreateRaises(tbl, key, faultKey)
             THEN [ tbl |-> tbl, created |-> 0, raised |-> TRUE ]
             ELSE LET row == QueueTokenMinting(
                                NewDigitalId(args, lineItem, key),
                                mint.configured, mint.chain)
                      rest == IssueUnits(Append(tbl, row), args, lineItem,
                                         i + 1, faultKey, mint)
                  IN  [ rest EXCEPT !.created = rest.created + 1 ]

\* One pass of the outer loop without its catch: a create that raises
\* leaves the function.
IssueLineItemNoCatch(res, args, lineItem, faultKey, mint) ==
    IF ~Truthy(lineItem.variant_id)
    THEN res
    ELSE IF ~CoreVariantFound(lineItem.variant_id)
    THEN [ res EXCEPT !.failed = res.failed + lineItem.quantity ]
    ELSE IF ~Truthy(CoreVariantBrand(lineItem.variant_id))
    THEN [ res EXCEPT !.failed = res.failed + lineItem.quantity ]
    ELSE LET r == IssueUnits(res.tbl, args, lineItem, 0, faultKey, mint)
         IN  [ tbl |-> r.tbl,
               created |-> res.created + r.created,
               failed |-> res.failed,
               raised |-> r.raised ]

\* One pass of the outer loop, lines 212-290, over one line item; the catch
\* (284-289) takes whatever the pass raises, so the pass itself never does.
IssueLineItem(res, args, lineItem, faultKey, mint) ==
    IF ~Truthy(lineItem.variant_id)
    THEN res
    ELSE IF ~CoreVariantFound(lineItem.variant_id)
    THEN [ res EXCEPT !.failed = res.failed + lineItem.quantity ]
    ELSE IF ~Truthy(CoreVariantBrand(lineItem.variant_id))
    THEN [ res EXCEPT !.failed = res.failed + lineItem.quantity ]
    ELSE LET r == IssueUnits(res.tbl, args, lineItem, 0, faultKey, mint)
         IN  [ tbl |-> r.tbl,
               created |-> res.created + r.created,
               failed |-> res.failed +
                          (IF r.raised THEN lineItem.quantity ELSE 0),
               raised |-> FALSE ]

RECURSIVE IssueFrom(_, _, _, _, _, _)
IssueFrom(res, args, lineItems, k, faultKey, mint) ==
    IF k > Len(lineItems) \/ res.raised THEN res
    ELSE IssueFrom(IssueLineItem(res, args, lineItems[k], faultKey, mint),
                   args, lineItems, k + 1, faultKey, mint)

\* createDigitalIdsForOrder, lines 180-293: the new table and the counts.
CreateDigitalIdsForOrder(tbl, args, lineItems, faultKey, mint) ==
    IssueFrom([ tbl |-> tbl, created |-> 0, failed |-> 0, raised |-> FALSE ],
              args, lineItems, 1, faultKey, mint)

\* The keys createDigitalIdsForOrder may write for a list of line items.
KeysOf(lineItems) ==
    UNION { { UniqueLineItemIdOf(lineItems[k], i) :
                i \in 0..(lineItems[k].quantity - 1) } :
            k \in 1..Len(lineItems) }

NoFault == << "none" >>

-----------------------------------------------------------------------------
(* The order processor: processor() of orderProcessor.worker.ts.           *)
(* Each action is one stretch of the function between two awaits.          *)

IdleWorker ==
    [ pc |-> "idle", job |-> 0, ev |-> 0, phone |-> Null, user |-> Null,
      ord |-> 0, wallet |-> Null, orderDb |-> << >>, items |-> << >>,
      sms |-> Null ]

intakeVars == << response, lastIntake >>
harnessVars == << phIn, phOut, issue, mintJob >>

EventOf(w) == webhookEvents[worker[w].ev]
PayloadOf(w) == EventOf(w).payload

SetStatus(orders, id, st) == [ orders EXCEPT ![id].status = st ]

\* A processor that goes from wallet provisioning straight to the issuance.
GotoSkipsMirror(w, pc) ==
    worker' = [ worker EXCEPT
                  ![w].pc = IF pc = "mirrorOrder" THEN "readItems" ELSE pc ]

Goto(w, pc) == worker' = [ worker EXCEPT ![w].pc = pc ]

\* The queue after a job's attempt has thrown: retried while attempts are
\* left, failed otherwise.
JobThrown(q, j) ==
    [ q EXCEPT ![j].attemptsMade = @ + 1,
               ![j].state = IF q[j].attemptsMade + 1 < MaxAttempts
                            THEN "waiting" ELSE "failed" ]

\* processor() throws (lines 697-700): the attempt is over, and the worker's
\* 'failed' listener (lines 736-765) starts its write without awaiting it.
Throw(w, msg) ==
    /\ queue' = JobThrown(queue, worker[w].job)
    /\ pendingFailed' = pendingFailed \cup
          { [ ev |-> queue[worker[w].job].data.webhookEventId,
              msg |-> msg ] }
    /\ worker' = [ worker EXCEPT ![w] = IdleWorker ]

\* The write of the 'failed' listener lands (lines 744-751).
FailedListenerWrite ==
    /\ \E p \in pendingFailed :
          /\ pendingFailed' = pendingFailed \ { p }
          /\ webhookEvents' =
                [ webhookEvents EXCEPT ![p.ev].processed = FALSE,
                                       ![p.ev].lastError =
                                           << "FINAL FAILURE", p.msg >> ]
    /\ UNCHANGED << env, queue, shopifyCustomers, users3fa, orders3fa,
                    shopifyOrders, shopifyLineItems, digitalIds, worker,
                    lastIssue, intakeVars, harnessVars, faults >>

\* The worker takes a waiting job.
Pickup(w) ==
    /\ worker[w].pc = "idle"
    /\ \E j \in 1..Len(queue) :
          /\ queue[j].state = "waiting"
          /\ queue' = [ queue EXCEPT ![j].state = "active" ]
          /\ worker' = [ worker EXCEPT ![w] =
                           [ IdleWorker EXCEPT !.pc = "fetch", !.job = j ] ]
    /\ UNCHANGED << env, webhookEvents, shopifyCustomers, users3fa, orders3fa,
                    shopifyOrders, shopifyLineItems, digitalIds,
                    pendingFailed, lastIssue, intakeVars,
                    harnessVars, faults >>

\* Lines 121-147: load the WebhookEvent and resolve the phone.
Fetch(w) ==
    /\ worker[w].pc = "fetch"
    /\ LET id == queue[worker[w].job].data.webhookEventId
       IN  IF id \in 1..Len(webhookEvents) /\
              webhookEvents[id].payload.kind = "object"
           THEN /\ worker' = [ worker EXCEPT
                                 ![w].pc = "customer",
                                 ![w].ev = id,
                                 ![w].phone =
                                     ExtractPhone(webhookEvents[id].payload) ]
                /\ UNCHANGED << queue, pendingFailed >>
           ELSE Throw(w, "WebhookEvent not found or invalid payload")
    /\ UNCHANGED << env, webhookEvents, shopifyCustomers, users3fa, orders3fa,
                    shopifyOrders, shopifyLineItems, digitalIds, lastIssue, intakeVars, harnessVars, faults >>

\* Lines 149-197: upsert ShopifyCustomer when the payload carries a customer.
UpsertCustomer(w) ==
    /\ worker[w].pc = "customer"
    /\ shopifyCustomers' =
          IF PayloadOf(w).customer_id # Null
          THEN shopifyCustomers \cup
                 { << EventOf(w).shopId, PayloadOf(w).customer_id >> }
          ELSE shopifyCustomers
    /\ Goto(w, "user")
    /\ UNCHANGED << env, webhookEvents, queue, users3fa, orders3fa,
                    shopifyOrders, shopifyLineItems, digitalIds,
                    pendingFailed, lastIssue, intakeVars,
                    harnessVars, faults >>

\* Lines 199-222: user3faService.findOrCreateFromShopifyCustomer; one
\* User3fa per phone number, or no user.
FindOrCreateUser(w, found) ==
    /\ worker[w].pc = "user"
    /\ found \/ faults < MaxFaults
    /\ faults' = IF found THEN faults ELSE faults + 1
    /\ IF found /\ Truthy(worker[w].phone)
       THEN /\ users3fa' = IF worker[w].phone \in DOMAIN users3fa
                           THEN users3fa
                           ELSE users3fa @@ (worker[w].phone :> Null)
            /\ worker' = [ worker EXCEPT ![w].pc = "createOrder",
                                         ![w].user = worker[w].phone ]
       ELSE /\ users3fa' = users3fa
            /\ Goto(w, "createOrder")
    /\ UNCHANGED << env, webhookEvents, queue, shopifyCustomers, orders3fa,
                    shopifyOrders, shopifyLineItems, digitalIds,
                    pendingFailed, lastIssue, intakeVars,
                    harnessVars >>

RECURSIVE SumQuantity(_, _)
SumQuantity(lineItems, k) ==
    IF k > Len(lineItems) THEN 0
    ELSE lineItems[k].quantity + SumQuantity(lineItems, k + 1)

OrderStored(orders, user, orderId) ==
    \E i \in 1..Len(orders) :
        orders[i].user3faId = user /\ orders[i].shopifyOrderId = orderId

\* An upsert in place of the create: the stored row of the pair is put back
\* to PROCESSING.
Orders3faUpsert(orders, user, orderId, totalItems, uniqueIndex) ==
    IF OrderStored(orders, user, orderId)
    THEN [ raised |-> FALSE,
           rows |-> [ i \in 1..Len(orders) |->
                        IF orders[i].user3faId = user /\
                           orders[i].shopifyOrderId = orderId
                        THEN [ orders[i] EXCEPT !.status = "PROCESSING" ]
                        ELSE orders[i] ] ]
    ELSE [ raised |-> FALSE,
           rows |-> Append(orders,
                      [ user3faId |-> user, shopifyOrderId |-> orderId,
                        status |-> "PROCESSING", totalItems |-> totalItems,
                        smsNotificationSentAt |-> FALSE ]) ]

\* prisma.orders3fa.create, lines 268-275: a new row at PROCESSING; raises
\* when the table has a unique index on (user3faId, shopifyOrderId) and the
\* pair is stored.
Orders3faCreate(orders, user, orderId, totalItems, uniqueIndex) ==
    IF uniqueIndex /\ OrderStored(orders, user, orderId)
    THEN [ raised |-> TRUE, rows |-> orders ]
    ELSE [ raised |-> FALSE,
           rows |-> Append(orders,
                      [ user3faId |-> user, shopifyOrderId |-> orderId,
                        status |-> "PROCESSING", totalItems |-> totalItems,
                        smsNotificationSentAt |-> FALSE ]) ]

\* Lines 256-296.
CreateOrders3fa(w) ==
    /\ worker[w].pc = "createOrder"
    /\ IF worker[w].user # Null
       THEN LET r == Orders3faCreate(orders3fa, worker[w].user,
                        PayloadOf(w).id,
                        SumQuantity(PayloadOf(w).line_items, 1),
                        env.ordersUnique)
            IN  IF r.raised
                THEN /\ Throw(w, "Unique constraint failed on Orders3fa")
                     /\ UNCHANGED << orders3fa, webhookEvents >>
                ELSE /\ orders3fa' = r.rows
                     /\ worker' = [ worker EXCEPT ![w].pc = "sms",
                                                  ![w].ord = Len(r.rows) ]
                     /\ UNCHANGED << queue, pendingFailed, webhookEvents >>
       ELSE /\ webhookEvents' =
                  [ webhookEvents EXCEPT
                      ![worker[w].ev].lastError =
                          << "User3fa could not be established." >>,
                      ![worker[w].ev].errorCount = @ + 1 ]
            /\ Throw(w, "User3fa could not be established")
            /\ UNCHANGED orders3fa
    /\ UNCHANGED << env, shopifyCustomers, users3fa, shopifyOrders,
                    shopifyLineItems, digitalIds, lastIssue,
                    intakeVars, harnessVars, faults >>

\* Lines 298-360: the SMS. The provider's configuration is read from the
\* environment at the call: configured, the message is sent or the send
\* raises (caught); not configured, the send is simulated. The sent timestamp
\* is stamped unless the provider raised.
SmsOutcomes == { "sent", "raised", "simulated" }

\* A stamp written whatever the provider did.
SmsStampAlways(sms) == TRUE

\* Lines 314-351: smsNotificationSentAt is written after a send that
\* returned (324-327) and after a simulated send (347-350); a send that
\* raised goes to the catch (328-337), which writes nothing.
SmsStamp(sms) == sms # "raised"

SendSms(w, sms) ==
    /\ worker[w].pc = "sms"
    /\ IF worker[w].ord # 0 /\ Truthy(worker[w].phone)
       THEN /\ orders3fa' =
                 IF SmsStamp(sms)
                 THEN [ orders3fa EXCEPT
                          ![worker[w].ord].smsNotificationSentAt = TRUE ]
                 ELSE orders3fa
            /\ worker' = [ worker EXCEPT ![w].pc = "wallet", ![w].sms = sms ]
       ELSE /\ sms = "simulated"
            /\ UNCHANGED orders3fa
            /\ Goto(w, "wallet")
    /\ UNCHANGED << env, webhookEvents, queue, shopifyCustomers, users3fa,
                    shopifyOrders, shopifyLineItems, digitalIds,
                    pendingFailed, lastIssue, intakeVars, harnessVars, faults >>

\* Lines 362-371 and 397-406: PENDING_WALLET before the provisioning call,
\* or FAILED_NO_PHONE_FOR_WALLET when there is no phone.
WalletPending(w) ==
    /\ worker[w].pc = "wallet"
    /\ IF worker[w].user # Null /\ Truthy(worker[w].phone) /\ worker[w].ord # 0
       THEN /\ orders3fa' = SetStatus(orders3fa, worker[w].ord,
                                      "PENDING_WALLET")
            /\ Goto(w, "walletCall")
       ELSE /\ orders3fa' =
                 IF worker[w].ord # 0
                 THEN SetStatus(orders3fa, worker[w].ord,
                                "FAILED_NO_PHONE_FOR_WALLET")
                 ELSE orders3fa
            /\ Goto(w, "mirrorOrder")
    /\ UNCHANGED << env, webhookEvents, queue, shopifyCustomers, users3fa,
                    shopifyOrders, shopifyLineItems, digitalIds,
                    pendingFailed, lastIssue, intakeVars,
                    harnessVars, faults >>

WalletOf(user) == << "0xWallet", user >>

WalletResults == { "success", "failure", "raise" }

\* Lines 372-396: user3faService.ensurePrivyWalletForUser and the status
\* that records its result. The call is not guarded: if it raises, the job
\* throws.
WalletCall(w, result) ==
    /\ worker[w].pc = "walletCall"
    /\ result # "raise" \/ faults < MaxFaults
    /\ faults' = IF result = "raise" THEN faults + 1 ELSE faults
    /\ CASE result = "success" ->
              /\ orders3fa' = SetStatus(orders3fa, worker[w].ord,
                                        "WALLET_PROVISIONED")
              /\ users3fa' = [ users3fa EXCEPT
                                 ![worker[w].user] = WalletOf(worker[w].user) ]
              /\ worker' = [ worker EXCEPT
                               ![w].pc = "mirrorOrder",
                               ![w].wallet = WalletOf(worker[w].user) ]
              /\ UNCHANGED << queue, pendingFailed >>
         [] result = "failure" ->
              /\ orders3fa' = SetStatus(orders3fa, worker[w].ord,
                                        "FAILED_WALLET_PROVISIONING")
              /\ Goto(w, "mirrorOrder")
              /\ UNCHANGED << users3fa, queue, pendingFailed >>
         [] OTHER ->
              /\ Throw(w, "ensurePrivyWalletForUser raised")
              /\ UNCHANGED << users3fa, orders3fa >>
    /\ UNCHANGED << env, webhookEvents, shopifyCustomers, shopifyOrders,
                    shopifyLineItems, digitalIds, lastIssue,
                    intakeVars, harnessVars >>

\* Lines 409-566 and 593-597: upsert ShopifyOrder by (shop, order id); the
\* job throws when the payload's id is not a number or BigInt(id) is 0n, and
\* when the store raises.
MirrorOrder(w, storeOk) ==
    /\ worker[w].pc = "mirrorOrder"
    /\ storeOk \/ faults < MaxFaults
    /\ faults' = IF storeOk THEN faults ELSE faults + 1
    /\ IF PayloadOf(w).id_type = "number" /\ PayloadOf(w).id # 0 /\ storeOk
       THEN /\ shopifyOrders' = shopifyOrders \cup
                                  { << EventOf(w).shopId, PayloadOf(w).id >> }
            /\ worker' = [ worker EXCEPT
                             ![w].pc = "mirrorDelete",
                             ![w].orderDb =
                                 << EventOf(w).shopId, PayloadOf(w).id >> ]
            /\ UNCHANGED << queue, pendingFailed >>
       ELSE /\ Throw(w, "Cannot save ShopifyOrder")
            /\ UNCHANGED shopifyOrders
    /\ UNCHANGED << env, webhookEvents, shopifyCustomers, users3fa, orders3fa,
                    shopifyLineItems, digitalIds, lastIssue,
                    intakeVars, harnessVars >>

RowsOfOrder(rows, orderDb) ==
    SelectSeq(rows, LAMBDA r : r.orderId = orderDb)

\* A deleteMany that removes nothing.
DeleteManyNothing(rows, orderDb) == rows

\* Lines 573-575: prisma.shopifyLineItem.deleteMany({ where: { orderId } }).
DeleteManyOfOrder(rows, orderDb) ==
    SelectSeq(rows, LAMBDA r : r.orderId # orderDb)

\* Lines 568-575: deleteMany of the order's line items.
MirrorDelete(w) ==
    /\ worker[w].pc = "mirrorDelete"
    /\ IF Len(PayloadOf(w).line_items) > 0
       THEN /\ shopifyLineItems' =
                 DeleteManyOfOrder(shopifyLineItems, worker[w].orderDb)
            /\ Goto(w, "mirrorCreate")
       ELSE /\ UNCHANGED shopifyLineItems
            /\ Goto(w, "readItems")
    /\ UNCHANGED << env, webhookEvents, queue, shopifyCustomers, users3fa,
                    orders3fa, shopifyOrders, digitalIds, pendingFailed, lastIssue, intakeVars, harnessVars, faults >>

\* Lines 577-586: the rows createMany writes for the payload's line items.
MirrorRows(orderDb, lineItems) ==
    [ k \in 1..Len(lineItems) |->
        [ orderId |-> orderDb,
          id |-> lineItems[k].id,
          quantity |-> lineItems[k].quantity,
          variant_id |-> lineItems[k].variant_id ] ]

\* Lines 576-589: createMany of the payload's line items.
MirrorCreate(w) ==
    /\ worker[w].pc = "mirrorCreate"
    /\ shopifyLineItems' = shopifyLineItems \o
          MirrorRows(worker[w].orderDb, PayloadOf(w).line_items)
    /\ Goto(w, "readItems")
    /\ UNCHANGED << env, webhookEvents, queue, shopifyCustomers, users3fa,
                    orders3fa, shopifyOrders, digitalIds, pendingFailed, lastIssue, intakeVars, harnessVars, faults >>

\* Lines 602-605: findMany of the order's mirrored line items. The call is
\* before the try of line 610: when the store raises, the job throws.
ReadItems(w, storeOk) ==
    /\ worker[w].pc = "readItems"
    /\ storeOk \/ faults < MaxFaults
    /\ faults' = IF storeOk THEN faults ELSE faults + 1
    /\ IF storeOk
       THEN /\ worker' = [ worker EXCEPT
                             ![w].pc = "issue",
                             ![w].items = RowsOfOrder(shopifyLineItems,
                                                      worker[w].orderDb) ]
            /\ UNCHANGED << queue, pendingFailed >>
       ELSE Throw(w, "shopifyLineItem.findMany raised")
    /\ UNCHANGED << env, webhookEvents, shopifyCustomers, users3fa,
                    orders3fa, shopifyOrders, shopifyLineItems, digitalIds,
                    lastIssue, intakeVars, harnessVars >>

\* Lines 625-652: the status that the counts of the issuance give.
FinalStatusAnyCreated(created, failed) ==
    IF created > 0 THEN "COMPLETED" ELSE "FAILED_UDI_CREATION"

FinalStatus(created, failed) ==
    IF failed = 0 THEN "COMPLETED"
    ELSE IF created > 0 THEN "PARTIALLY_COMPLETED"
    ELSE "FAILED_UDI_CREATION"

\* What the store does with the write of the final status: it takes it
\* ("ok"), it raises on it and takes the write of the catch ("raise"), or it
\* raises on both ("outage").
StatusWrites == { "ok", "raise", "outage" }

FaultCost(faultKey, statusWrite) ==
    (IF faultKey = NoFault THEN 0 ELSE 1) +
    (IF statusWrite = "ok" THEN 0 ELSE 1)

\* Lines 600-676: createDigitalIdsForOrder over the mirrored line items, and
\* the final status of the Orders3fa. The call and the write of the status
\* are in one try (610-652); its catch writes FAILED_UDI_CREATION_ERROR
\* (653-663), and that write is guarded by nothing but the outer catch.
IssueDigitalIds(w, faultKey, mintConfigured, chain, statusWrite) ==
    /\ worker[w].pc = "issue"
    /\ faults + FaultCost(faultKey, statusWrite) <= MaxFaults
    /\ faults' = faults + FaultCost(faultKey, statusWrite)
    /\ IF worker[w].user # Null /\ worker[w].ord # 0 /\
          worker[w].orderDb # << >>
       THEN LET r == CreateDigitalIdsForOrder(digitalIds,
                        [ shopifyOrderId |-> PayloadOf(w).id,
                          owner3faId |-> worker[w].user,
                          orders3faId |-> worker[w].ord,
                          privyWalletAddress |-> worker[w].wallet ],
                        worker[w].items, faultKey,
                        [ configured |-> mintConfigured, chain |-> chain ])
            IN  /\ digitalIds' = r.tbl
                /\ lastIssue' = IF r.raised THEN lastIssue
                                ELSE [ ord |-> worker[w].ord,
                                       created |-> r.created,
                                       failed |-> r.failed ]
                /\ IF ~r.raised /\ statusWrite = "ok"
                   THEN /\ orders3fa' =
                              SetStatus(orders3fa, worker[w].ord,
                                        FinalStatus(r.created, r.failed))
                        /\ Goto(w, "finalize")
                        /\ UNCHANGED << queue, pendingFailed >>
                   ELSE IF statusWrite # "outage"
                   THEN /\ orders3fa' =
                              SetStatus(orders3fa, worker[w].ord,
                                        "FAILED_UDI_CREATION_ERROR")
                        /\ Goto(w, "finalize")
                        /\ UNCHANGED << queue, pendingFailed >>
                   ELSE /\ Throw(w, "orders3fa.update raised")
                        /\ UNCHANGED orders3fa
       ELSE /\ statusWrite = "ok"
            /\ orders3fa' =
                 IF worker[w].ord # 0
                 THEN SetStatus(orders3fa, worker[w].ord,
                                "FAILED_PREREQUISITES_FOR_UDI")
                 ELSE orders3fa
            /\ Goto(w, "finalize")
            /\ UNCHANGED << digitalIds, lastIssue, queue, pendingFailed >>
    /\ UNCHANGED << env, webhookEvents, shopifyCustomers, users3fa,
                    shopifyOrders, shopifyLineItems, intakeVars, harnessVars >>

\* A final write that sets the processed flag only.
MarkProcessedKeepsErrors(ev) ==
    [ ev EXCEPT !.processed = TRUE, !.processedAt = TRUE ]

\* A final write that also purges the stored payload.
MarkProcessedPurgesPayload(ev) ==
    [ ev EXCEPT !.processed = TRUE, !.processedAt = TRUE,
                !.errorCount = 0, !.lastError = << >>,
                !.payload = NoPayload ]

\* Lines 680-688: the data of the final WebhookEvent update.
MarkProcessed(ev) ==
    [ ev EXCEPT !.processed = TRUE, !.processedAt = TRUE,
                !.errorCount = 0, !.lastError = << >> ]

\* Lines 678-688: mark the WebhookEvent processed; the job completes.
Finalize(w) ==
    /\ worker[w].pc = "finalize"
    /\ webhookEvents' =
          [ webhookEvents EXCEPT
              ![worker[w].ev] = MarkProcessed(webhookEvents[worker[w].ev]) ]
    /\ queue' = [ queue EXCEPT ![worker[w].job].state = "completed" ]
    /\ worker' = [ worker EXCEPT ![w] = IdleWorker ]
    /\ UNCHANGED << env, shopifyCustomers, users3fa, orders3fa, shopifyOrders,
                    shopifyLineItems, digitalIds, pendingFailed, lastIssue, intakeVars, harnessVars, faults >>

-----------------------------------------------------------------------------
(* The saga: intake and worker against one store and one queue *)

NoAttempt ==
    [ error |-> << >>, calls |-> << >>, tx |-> Null, contract |-> Null ]

\* A UniqueDigitalId as prisma.uniqueDigitalId.create returns it (README.md
\* 256-273) and the environment in which its minting is triggered.
MintStart(wallet, contract, variantContract, cfg) ==
    [ pc |-> "trigger",
      row |-> [ status |-> "CREATED", privyWalletAddress |-> wallet,
                contractAddress |-> contract, transactionHash |-> Null ],
      cfg |-> cfg, variantContract |-> variantContract,
      checked |-> FALSE, chain |-> Null, attempt |-> NoAttempt,
      result |-> NoResult,
      raised |-> FALSE, history |-> << "CREATED" >>, api |-> 0 ]

NoMint == [ MintStart(Null, Null, Null, FullConfig) EXCEPT !.pc = "off" ]

NoIntake ==
    [ replay |-> FALSE, changed |-> FALSE, malformed |-> FALSE,
      enqueued |-> FALSE, added |-> FALSE, key |-> << >> ]

NoCalls == [ calls |-> 0, first |-> << >>, firstFaulted |-> FALSE,
             full |-> FALSE, raised |-> FALSE ]

NoIssue == [ ord |-> 0, created |-> 0, failed |-> 0 ]

Envs ==
    [ ordersUnique : BOOLEAN, order : Payloads ]

InitStore(envs, ws) ==
    /\ env \in envs
    /\ webhookEvents = << >>
    /\ queue = << >>
    /\ response = Respond(HTTP_OK, Null)
    /\ lastIntake = NoIntake
    /\ shopifyCustomers = { }
    /\ users3fa = << >>
    /\ orders3fa = << >>
    /\ shopifyOrders = { }
    /\ shopifyLineItems = << >>
    /\ digitalIds = << >>
    /\ worker = [ w \in ws |-> IdleWorker ]
    /\ pendingFailed = { }
    /\ faults = 0
    /\ lastIssue = NoIssue
    /\ issue = NoCalls

InitSaga(envs) == InitStore(envs, Workers)

Init ==
    /\ InitSaga(Envs)
    /\ phIn = << Null, Null, Null, Null >>
    /\ phOut = [ done |-> FALSE, intake |-> Null, worker |-> Null ]
    /\ mintJob = NoMint

FaultKeys(w) == { NoFault } \cup KeysOf(worker[w].items)

Next ==
    \/ \E rq \in Requests(env.order) : Deliver(rq)
    \/ \E w \in Workers : Pickup(w)
    \/ \E w \in Workers : Fetch(w)
    \/ \E w \in Workers : UpsertCustomer(w)
    \/ \E w \in Workers, found \in BOOLEAN : FindOrCreateUser(w, found)
    \/ \E w \in Workers : CreateOrders3fa(w)
    \/ \E w \in Workers, sms \in SmsOutcomes : SendSms(w, sms)
    \/ \E w \in Workers : WalletPending(w)
    \/ \E w \in Workers, result \in WalletResults : WalletCall(w, result)
    \/ \E w \in Workers, storeOk \in BOOLEAN : MirrorOrder(w, storeOk)
    \/ \E w \in Workers : MirrorDelete(w)
    \/ \E w \in Workers : MirrorCreate(w)
    \/ \E w \in Workers : ReadItems(w, TRUE)
    \/ \E w \in Workers :
          \E faultKey \in FaultKeys(w), mintConfigured \in BOOLEAN,
             chain \in ChainOutcomes :
              IssueDigitalIds(w, faultKey, mintConfigured, chain, "ok")
    \/ \E w \in Workers : Finalize(w)
    \/ FailedListenerWrite

Spec == Init /\ [][Next]_vars

\* Intake alone, with each call's Response observed.
NextIntake == \E rq \in Requests(env.order) : Intake(rq)

SpecIntake == Init /\ [][NextIntake]_vars

\* The saga with a store that may also raise in the issuance step: on the
\* findMany of the mirrored line items and on the write of the final status.
NextOutage ==
    \/ \E rq \in Requests(env.order) : Deliver(rq)
    \/ \E w \in Workers : Pickup(w)
    \/ \E w \in Workers : Fetch(w)
    \/ \E w \in Workers : UpsertCustomer(w)
    \/ \E w \in Workers, found \in BOOLEAN : FindOrCreateUser(w, found)
    \/ \E w \in Workers : CreateOrders3fa(w)
    \/ \E w \in Workers, sms \in SmsOutcomes : SendSms(w, sms)
    \/ \E w \in Workers : WalletPending(w)
    \/ \E w \in Workers, result \in WalletResults : WalletCall(w, result)
    \/ \E w \in Workers, storeOk \in BOOLEAN : MirrorOrder(w, storeOk)
    \/ \E w \in Workers : MirrorDelete(w)
    \/ \E w \in Workers : MirrorCreate(w)
    \/ \E w \in Workers, storeOk \in BOOLEAN : ReadItems(w, storeOk)
    \/ \E w \in Workers :
          \E faultKey \in FaultKeys(w), mintConfigured \in BOOLEAN,
             chain \in ChainOutcomes, statusWrite \in StatusWrites :
              IssueDigitalIds(w, faultKey, mintConfigured, chain, statusWrite)
    \/ \E w \in Workers : Finalize(w)
    \/ FailedListenerWrite

SpecOutage == Init /\ [][NextOutage]_vars

\* The saga on the order 1001 with one line item of quantity 2, a direct
\* phone, a provider that sends, a wallet that is provisioned, a store that
\* takes every write, and a configured mint whose first method succeeds.
ScenarioOrder == MkPayload(1001, DirectPhone, << << VariantOk, 2 >> >>)

InitScenario ==
    /\ InitSaga({ e \in Envs : e.order = ScenarioOrder })
    /\ phIn = << Null, Null, Null, Null >>
    /\ phOut = [ done |-> FALSE, intake |-> Null, worker |-> Null ]
    /\ mintJob = NoMint

NextScenario ==
    \/ \E rq \in Requests(env.order) : Deliver(rq)
    \/ \E w \in Workers : Pickup(w)
    \/ \E w \in Workers : Fetch(w)
    \/ \E w \in Workers : UpsertCustomer(w)
    \/ \E w \in Workers : FindOrCreateUser(w, TRUE)
    \/ \E w \in Workers : CreateOrders3fa(w)
    \/ \E w \in Workers : SendSms(w, "sent")
    \/ \E w \in Workers : WalletPending(w)
    \/ \E w \in Workers : WalletCall(w, "success")
    \/ \E w \in Workers : MirrorOrder(w, TRUE)
    \/ \E w \in Workers : MirrorDelete(w)
    \/ \E w \in Workers : MirrorCreate(w)
    \/ \E w \in Workers : ReadItems(w, TRUE)
    \/ \E w \in Workers : IssueDigitalIds(w, NoFault, TRUE, "mintTo", "ok")
    \/ \E w \in Workers : Finalize(w)

SpecScenario == InitScenario /\ [][NextScenario]_vars

-----------------------------------------------------------------------------
(* Phone extraction on its own: every combination of the four locations.   *)

PhoneValues == { Null, "", "+1555", "+1777" }

InitPhone ==
    /\ InitSaga({ e \in Envs : ~e.ordersUnique /\
                               e.order.line_items = << >> })
    /\ phIn \in PhoneValues \X PhoneValues \X PhoneValues \X PhoneValues
    /\ phOut = [ done |-> FALSE, intake |-> Null, worker |-> Null ]
    /\ mintJob = NoMint

\* The expression of intake (lines 113-117) and of the worker (lines
\* 137-141) on the same payload.
ExtractBoth ==
    /\ ~phOut.done
    /\ phOut' = [ done |-> TRUE,
                  intake |-> ExtractPhone(MkPayload(1001, phIn, << >>)),
                  worker |-> ExtractPhone(MkPayload(1001, phIn, << >>)) ]
    /\ UNCHANGED << sagaVars, phIn, issue, mintJob >>

SpecPhone == InitPhone /\ [][ExtractBoth]_vars

-----------------------------------------------------------------------------
(* A stalled job: the queue hands a job whose lock expired to a second      *)
(* worker while the first is still running processor() on it.              *)

\* The worker that holds the job and the worker that takes it when the
\* queue has reclaimed it.
StallWorkers == 1..(WORKER_CONCURRENCY + 1)

\* The queue moves an active job whose lock expired back to waiting (the
\* 'stalled' event of lines 783-785); the worker that holds it runs on.
Stall(j) ==
    /\ queue[j].state = "active"
    /\ queue[j].stalledCounter < MaxStalls
    /\ queue' = [ queue EXCEPT ![j].state = "waiting",
                               ![j].stalledCounter = @ + 1 ]
    /\ UNCHANGED << env, webhookEvents, shopifyCustomers, users3fa, orders3fa,
                    shopifyOrders, shopifyLineItems, digitalIds, worker,
                    pendingFailed, lastIssue, intakeVars, harnessVars,
                    faults >>

InitStall ==
    /\ InitStore({ e \in Envs : e.order = MkPayload(1001, DirectPhone,
                                            << << VariantOk, 2 >> >>) },
                 StallWorkers)
    /\ phIn = << Null, Null, Null, Null >>
    /\ phOut = [ done |-> FALSE, intake |-> Null, worker |-> Null ]
    /\ mintJob = NoMint

NextStall ==
    \/ Deliver(GoodRequest(env.order))
    \/ \E j \in 1..Len(queue) : Stall(j)
    \/ \E w \in StallWorkers : Pickup(w)
    \/ \E w \in StallWorkers : Fetch(w)
    \/ \E w \in StallWorkers : UpsertCustomer(w)
    \/ \E w \in StallWorkers, found \in BOOLEAN : FindOrCreateUser(w, found)
    \/ \E w \in StallWorkers : CreateOrders3fa(w)
    \/ \E w \in StallWorkers, sms \in SmsOutcomes : SendSms(w, sms)
    \/ \E w \in StallWorkers : WalletPending(w)
    \/ \E w \in StallWorkers, result \in WalletResults : WalletCall(w, result)
    \/ \E w \in StallWorkers, storeOk \in BOOLEAN : MirrorOrder(w, storeOk)
    \/ \E w \in StallWorkers : MirrorDelete(w)
    \/ \E w \in StallWorkers : MirrorCreate(w)
    \/ \E w \in StallWorkers : ReadItems(w, TRUE)
    \/ \E w \in StallWorkers :
          \E faultKey \in FaultKeys(w), mintConfigured \in BOOLEAN,
             chain \in ChainOutcomes :
              IssueDigitalIds(w, faultKey, mintConfigured, chain, "ok")
    \/ \E w \in StallWorkers : Finalize(w)
    \/ FailedListenerWrite

SpecStall == InitStall /\ [][NextStall]_vars

-----------------------------------------------------------------------------
(* The minting of one UniqueDigitalId, step by step: queueTokenMinting      *)
(* (README.md 299-331) and mintDigitalIdOnBase (token-minting.service.ts).  *)

InitMint ==
    /\ InitStore({ e \in Envs : ~e.ordersUnique /\
                                e.order.line_items = << >> }, Workers)
    /\ phIn = << Null, Null, Null, Null >>
    /\ phOut = [ done |-> FALSE, intake |-> Null, worker |-> Null ]
    /\ \E wallet \in { Null, "0xWallet" }, contract \in { Null, "0xContract" },
          variantContract \in { Null, "0xVariant" }, cfg \in MintConfigs :
          mintJob = MintStart(wallet, contract, variantContract, cfg)

mintOthers == << sagaVars, phIn, phOut, issue >>

\* README.md 302-307: the write of MINT_PENDING, outside the try; a raise of
\* the store leaves queueTokenMinting.
MintSetPending(storeOk) ==
    /\ mintJob.pc = "trigger"
    /\ mintJob' = IF storeOk
               THEN [ mintJob EXCEPT
                        !.pc = "check",
                        !.row = PendingWrite(mintJob.row),
                        !.history = Append(@, PendingWrite(mintJob.row).status) ]
               ELSE [ mintJob EXCEPT !.pc = "done", !.raised = TRUE ]
    /\ UNCHANGED mintOthers

\* README.md 309-314: without the environment the trigger returns.
MintCheckEnv ==
    /\ mintJob.pc = "check"
    /\ mintJob' = [ mintJob EXCEPT
                   !.checked = TRUE,
                   !.pc = IF EnvPresent(mintJob.cfg) THEN "run" ELSE "done" ]
    /\ UNCHANGED mintOthers

\* token-minting.service.ts 57-138: preflight and the chain calls.
MintCallChain(chain) ==
    /\ mintJob.pc = "run"
    /\ mintJob' = [ mintJob EXCEPT
                   !.pc = "record",
                   !.chain = chain,
                   !.attempt = MintAttempt(mintJob.row, mintJob.variantContract,
                                           mintJob.cfg, chain) ]
    /\ UNCHANGED mintOthers

\* token-minting.service.ts 140-171: the outcome is written and returned.
MintWriteOutcome(mintedWriteOk, failedWriteOk) ==
    /\ mintJob.pc = "record"
    /\ LET r == MintRecord(mintJob.row, mintJob.attempt, mintedWriteOk,
                           failedWriteOk)
       IN  mintJob' = [ mintJob EXCEPT
                       !.pc = "done",
                       !.row = r.row,
                       !.result = r.result,
                       !.raised = r.raised,
                       !.history = IF r.row.status = mintJob.row.status
                                   THEN @ ELSE Append(@, r.row.status) ]
    /\ UNCHANGED mintOthers

\* With the store healthy.
NextMint ==
    \/ MintSetPending(TRUE)
    \/ MintCheckEnv
    \/ \E chain \in ChainOutcomes : MintCallChain(chain)
    \/ MintWriteOutcome(TRUE, TRUE)

SpecMint == InitMint /\ [][NextMint]_vars

\* With a store that may raise on each of the three writes.
NextMintFaults ==
    \/ \E storeOk \in BOOLEAN : MintSetPending(storeOk)
    \/ MintCheckEnv
    \/ \E chain \in ChainOutcomes : MintCallChain(chain)
    \/ \E mintedWriteOk, failedWriteOk \in BOOLEAN :
          MintWriteOutcome(mintedWriteOk, failedWriteOk)

SpecMintFaults == InitMint /\ [][NextMintFaults]_vars

DigitalIdStatuses == { "CREATED", "MINT_PENDING", "MINTED", "MINT_FAILED" }

\* updateDigitalIdStatus, README.md 336-342: writes the status it is given.
UpdateDigitalIdStatus(status) ==
    /\ mintJob.api < MaxApiCalls
    /\ mintJob' = [ mintJob EXCEPT !.api = @ + 1,
                             !.row.status = status,
                             !.history = Append(@, status) ]
    /\ UNCHANGED mintOthers

\* markAsMinted, README.md 347-370: writes MINTED and the transaction.
MarkAsMinted(tx) ==
    /\ mintJob.api < MaxApiCalls
    /\ mintJob' = [ mintJob EXCEPT !.api = @ + 1,
                             !.row.status = "MINTED",
                             !.row.transactionHash = tx,
                             !.history = Append(@, "MINTED") ]
    /\ UNCHANGED mintOthers

\* The minting flow together with the service's status setters.
NextMintApi ==
    \/ NextMint
    \/ \E status \in DigitalIdStatuses : UpdateDigitalIdStatus(status)
    \/ MarkAsMinted("tx-external")

SpecMintApi == InitMint /\ [][NextMintApi]_vars

-----------------------------------------------------------------------------
(* createDigitalIdsForOrder called repeatedly for one order, as a re-run of *)
(* the processor's issuance step (lines 610-618) does.                      *)

IssueArgs ==
    [ shopifyOrderId |-> env.order.id,
      owner3faId |-> "+1555",
      orders3faId |-> 1,
      privyWalletAddress |-> WalletOf("+1555") ]

IssueItems == MirrorRows(<< "s1", env.order.id >>, env.order.line_items)

\* The line items createDigitalIdsForOrder creates records for: those
\* whose variant resolves to a CoreVariant with a brand.
Issuable(lineItem) ==
    /\ Truthy(lineItem.variant_id)
    /\ CoreVariantFound(lineItem.variant_id)
    /\ Truthy(CoreVariantBrand(lineItem.variant_id))

\* Every unit of every issuable line item has its record.
FullyIssued(tbl, lineItems) ==
    \A k \in 1..Len(lineItems) :
        Issuable(lineItems[k]) =>
            \A i \in 0..(lineItems[k].quantity - 1) :
                DigitalIdStored(tbl, UniqueLineItemIdOf(lineItems[k], i))

InitIssue ==
    /\ InitSaga({ e \in Envs : ~e.ordersUnique })
    /\ phIn = << Null, Null, Null, Null >>
    /\ phOut = [ done |-> FALSE, intake |-> Null, worker |-> Null ]
    /\ mintJob = NoMint

IssueCall(faultKey, mintConfigured, chain) ==
    /\ issue.calls < MaxCalls
    /\ faultKey = NoFault \/ faults < MaxFaults
    /\ faults' = IF faultKey = NoFault THEN faults ELSE faults + 1
    /\ LET r == CreateDigitalIdsForOrder(digitalIds, IssueArgs, IssueItems,
                    faultKey,
                    [ configured |-> mintConfigured, chain |-> chain ])
       IN  /\ digitalIds' = r.tbl
           /\ lastIssue' = [ ord |-> 1, created |-> r.created,
                             failed |-> r.failed ]
           /\ issue' =
                 [ calls |-> issue.calls + 1,
                   first |-> IF issue.calls = 0 THEN r.tbl ELSE issue.first,
                   firstFaulted |-> IF issue.calls = 0
                                    THEN faultKey # NoFault
                                    ELSE issue.firstFaulted,
                   full |-> FullyIssued(digitalIds, IssueItems),
                   raised |-> issue.raised \/ r.raised ]
    /\ UNCHANGED << env, webhookEvents, queue, response, lastIntake,
                    shopifyCustomers, users3fa, orders3fa, shopifyOrders,
                    shopifyLineItems, worker, pendingFailed, phIn, phOut,
                    mintJob >>

NextIssue ==
    \E faultKey \in { NoFault } \cup KeysOf(IssueItems),
       mintConfigured \in BOOLEAN, chain \in ChainOutcomes :
        IssueCall(faultKey, mintConfigured, chain)

SpecIssue == InitIssue /\ [][NextIssue]_vars

-----------------------------------------------------------------------------
(* Intake: properties of action() under SpecIntake *)

\* The first non-empty value of the four phone locations, in their order.
FirstTruthyChain(direct, shipping, billing, customer) ==
    IF Truthy(direct) THEN direct
    ELSE IF Truthy(shipping) THEN shipping
    ELSE IF Truthy(billing) THEN billing
    ELSE customer

\* C1. Idempotent intake: a call of the intake with a dedup key (eventId)
\* that is already stored changes neither the WebhookEvent table nor the
\* queue; no two stored events share a dedup key and no two jobs stand for
\* the same event or carry the same job id.
C1_IdempotentIntake ==
    /\ \A i, j \in 1..Len(webhookEvents) :
          webhookEvents[i].eventId = webhookEvents[j].eventId => i = j
    /\ \A i, j \in 1..Len(queue) :
          (queue[i].data = queue[j].data \/ queue[i].id = queue[j].id) => i = j
    /\ lastIntake.replay => ~lastIntake.changed

\* A replayed delivery after the first one stored its event and its job.
C1_Witness ==
    /\ lastIntake.replay
    /\ Len(webhookEvents) = 1
    /\ Len(queue) = 1

NoPhoneAnywhere(p) ==
    ~Truthy(FirstTruthyChain(p.phone, p.shipping_phone, p.billing_phone,
                             p.customer_phone))

\* C8. No-phone short-circuit: every stored event whose payload holds no
\* phone number at any of the four locations is marked processed, carries
\* the explanatory note in lastError, and no job of the queue stands for it.
C8_NoPhoneShortCircuit ==
    \A i \in 1..Len(webhookEvents) :
        NoPhoneAnywhere(webhookEvents[i].payload) =>
            /\ webhookEvents[i].processed
            /\ webhookEvents[i].lastError = NoPhoneNote
            /\ \A j \in 1..Len(queue) : queue[j].data.webhookEventId # i

\* An event without a phone was stored and the call returned.
C8_Witness ==
    /\ Len(webhookEvents) >= 1
    /\ NoPhoneAnywhere(webhookEvents[1].payload)
    /\ response.body = "Acknowledged, no phone number."
    /\ queue = << >>

\* C11. Malformed payload: a call whose payload is missing, is not a
\* structured document or carries no numeric order id adds no job to the
\* queue.
C11_MalformedNoJob == lastIntake.malformed => ~lastIntake.enqueued

\* Calls without a payload and without a numeric id have returned, after a
\* well-formed delivery had put its job in the queue.
C11_Witness ==
    /\ lastIntake.malformed
    /\ response.body = "Invalid payload - Missing Order ID"
    /\ Len(queue) = 1

\* C12. A valid event with a phone enqueues exactly one job, whose identity
\* is the (shop, order id) of the event alone; a further enqueue with the
\* same (shop, order id) adds no second job and the caller still gets the
\* plain acknowledgment.
C12_OneJobPerOrder ==
    /\ \A i, j \in 1..Len(queue) : queue[i].id = queue[j].id => i = j
    /\ \A j \in 1..Len(queue) :
          LET ev == webhookEvents[queue[j].data.webhookEventId]
          IN  queue[j].id = JobIdOf(ev.shopId, ev.payload.id)
    /\ lastIntake.added =>
          /\ Cardinality({ j \in 1..Len(queue) :
                             queue[j].id = lastIntake.key }) = 1
          /\ response = Respond(HTTP_OK, Null)

\* A second event of the same order reached queue.add while the job of the
\* first was in the queue.
C12_Witness ==
    /\ lastIntake.added
    /\ ~lastIntake.enqueued
    /\ Len(webhookEvents) = 2
    /\ Len(queue) = 1

\* C10. Intake always acknowledges: the Response of every call of action()
\* has status 200, whichever path the call took.
C10_AlwaysAcknowledges == response.status = HTTP_OK

\* A call whose authentication, store write or enqueue raised has returned.
C10_Witness == response = CatchResponse

-----------------------------------------------------------------------------
(* Phone extraction: properties under SpecPhone *)

\* C9. Phone extraction returns the first non-empty value among the direct,
\* shipping, billing and customer phone, in this order, and intake and the
\* worker resolve the same phone for the same payload.
C9_FirstNonEmptyWins ==
    phOut.done =>
        /\ phOut.intake = FirstTruthyChain(phIn[1], phIn[2], phIn[3], phIn[4])
        /\ phOut.intake = phOut.worker

-----------------------------------------------------------------------------
(* Issuance: properties of createDigitalIdsForOrder under SpecIssue *)

Records(tbl) == { tbl[i] : i \in 1..Len(tbl) }

OnePerKey(tbl) ==
    \A i, j \in 1..Len(tbl) :
        tbl[i].shopifyLineItemId = tbl[j].shopifyLineItemId => i = j

FailureStatuses ==
    { "PARTIALLY_COMPLETED", "FAILED_UDI_CREATION",
      "FAILED_UDI_CREATION_ERROR", "FAILED_PREREQUISITES_FOR_UDI" }

\* C3. A call over an order whose units are all issued already is a no-op
\* treated as success: nothing is counted in failed, and the status that
\* the processor derives from the counts is not a failure status.
C3_RerunIsSuccess ==
    (issue.calls >= 2 /\ issue.full) =>
        /\ lastIssue.failed = 0
        /\ FinalStatus(lastIssue.created, lastIssue.failed)
              \notin FailureStatuses

-----------------------------------------------------------------------------
(* The saga: properties of processor() under Spec *)

\* C13. Two workers that execute the same job concurrently leave at most
\* one Orders3fa per order and at most one UniqueDigitalId per uniqueness
\* key, in every interleaving.
C13_NoDuplicateKeyedRecords ==
    /\ \A i, j \in 1..Len(orders3fa) :
          orders3fa[i].shopifyOrderId = orders3fa[j].shopifyOrderId => i = j
    /\ \A i, j \in 1..Len(digitalIds) :
          digitalIds[i].shopifyLineItemId = digitalIds[j].shopifyLineItemId
              => i = j

\* C4. After any number of executions of the job there is exactly one
\* Orders3fa per (user, order), and a re-run reuses that record: no
\* execution fails on creating it again.
C4_OneOrderRecord ==
    /\ \A i, j \in 1..Len(orders3fa) :
          ( /\ orders3fa[i].user3faId = orders3fa[j].user3faId
            /\ orders3fa[i].shopifyOrderId = orders3fa[j].shopifyOrderId )
          => i = j
    /\ \A p \in pendingFailed :
          p.msg # "Unique constraint failed on Orders3fa"

StageOf(st) ==
    IF st = "PROCESSING" THEN 0
    ELSE IF st = "PENDING_WALLET" THEN 1
    ELSE IF st \in { "WALLET_PROVISIONED", "FAILED_WALLET_PROVISIONING",
                     "FAILED_NO_PHONE_FOR_WALLET" } THEN 2
    ELSE 3

\* C5. Status monotonicity: in every step, retried jobs included, no
\* Orders3fa is removed and the status of each either stays or moves to a
\* later stage of PROCESSING -> PENDING_WALLET -> wallet outcome -> terminal.
C5_StatusMonotonic ==
    [][ /\ Len(orders3fa') >= Len(orders3fa)
        /\ \A i \in 1..Len(orders3fa) :
              \/ orders3fa'[i].status = orders3fa[i].status
              \/ StageOf(orders3fa'[i].status) > StageOf(orders3fa[i].status)
      ]_vars

\* A retried job: the record of the first attempt was left behind and the
\* record of the second went through every stage.
C5_Witness ==
    /\ Len(orders3fa) = 2
    /\ orders3fa[1].status = "PENDING_WALLET"
    /\ orders3fa[2].status = "COMPLETED"
    /\ \E j \in 1..Len(queue) : queue[j].attemptsMade >= 1

TerminalStatuses ==
    { "COMPLETED", "PARTIALLY_COMPLETED", "FAILED_UDI_CREATION",
      "FAILED_UDI_CREATION_ERROR", "FAILED_PREREQUISITES_FOR_UDI" }

Drained ==
    /\ \A j \in 1..Len(queue) : queue[j].state \in { "completed", "failed" }
    /\ \A w \in Workers : worker[w].pc = "idle"
    /\ pendingFailed = { }

\* C6. Convergence: once every job has completed or has used up its
\* attempts, every Orders3fa the saga created has a terminal status; none is
\* left at PROCESSING, PENDING_WALLET or a wallet outcome.
C6_Converges ==
    Drained =>
        \A i \in 1..Len(orders3fa) : orders3fa[i].status \in TerminalStatuses

\* C7. Final status aggregation: after an issuance that returned (created,
\* failed), the Orders3fa is COMPLETED when nothing failed,
\* PARTIALLY_COMPLETED when some units were created and some failed, and
\* FAILED_UDI_CREATION when none was created and some failed.
C7_FinalStatusAggregation ==
    lastIssue # NoIssue =>
        LET st == orders3fa[lastIssue.ord].status
        IN  /\ lastIssue.failed = 0 => st = "COMPLETED"
            /\ (lastIssue.failed > 0 /\ lastIssue.created > 0)
                  => st = "PARTIALLY_COMPLETED"
            /\ (lastIssue.failed > 0 /\ lastIssue.created = 0)
                  => st = "FAILED_UDI_CREATION"

\* Three line items, two issued and one failed.
C7_Witness ==
    /\ lastIssue # NoIssue
    /\ lastIssue.created = 2
    /\ lastIssue.failed = 1
    /\ Len(env.order.line_items) = 3
    /\ orders3fa[lastIssue.ord].status = "PARTIALLY_COMPLETED"

-----------------------------------------------------------------------------
(* Minting: properties of queueTokenMinting and mintDigitalIdOnBase *)

StatusEdges ==
    { << "CREATED", "MINT_PENDING" >>, << "MINT_PENDING", "MINTED" >>,
      << "MINT_PENDING", "MINT_FAILED" >> }

\* C14. Minting state machine: a UniqueDigitalId starts at CREATED and every
\* write of its status follows CREATED -> MINT_PENDING -> {MINTED |
\* MINT_FAILED}; no operation moves it out of MINTED or MINT_FAILED or back
\* to CREATED.
C14_StatusMachine ==
    /\ mintJob.history[1] = "CREATED"
    /\ \A k \in 1..(Len(mintJob.history) - 1) :
          << mintJob.history[k], mintJob.history[k + 1] >> \in StatusEdges

\* C15. MINT_PENDING is written before the configuration check and before
\* every chain call: at every point after the trigger's first write, where
\* a crash may stop the flow, the record is not at CREATED and MINT_PENDING
\* is the first status written.
C15_PendingFirst ==
    ( \/ mintJob.pc \in { "check", "run", "record" }
      \/ mintJob.checked
      \/ mintJob.attempt.calls # << >> )
    => /\ mintJob.row.status # "CREATED"
       /\ Len(mintJob.history) >= 2
       /\ mintJob.history[2] = "MINT_PENDING"

\* The chain calls were made and the outcome is not yet written.
C15_Witness ==
    /\ mintJob.pc = "record"
    /\ mintJob.attempt.calls # << >>
    /\ mintJob.row.status = "MINT_PENDING"

AnyCredentialAbsent(cfg) ==
    ~Truthy(cfg.clientId) \/ ~Truthy(cfg.privateKey) \/ ~Truthy(cfg.appBaseUrl)

\* C16. Mint unconfigured: with the client id, the minter key or the base
\* URL absent, the trigger leaves the record at MINT_PENDING, makes no chain
\* call and returns without an error.
C16_UnconfiguredStaysPending ==
    (mintJob.pc = "done" /\ mintJob.checked /\ AnyCredentialAbsent(mintJob.cfg))
    => /\ mintJob.row.status = "MINT_PENDING"
       /\ mintJob.attempt.calls = << >>
       /\ mintJob.result = NoResult
       /\ ~mintJob.raised

C16_Witness ==
    /\ mintJob.pc = "done"
    /\ mintJob.checked
    /\ ~Truthy(mintJob.cfg.privateKey)
    /\ mintJob.row.status = "MINT_PENDING"

\* C17. Mint fallback: the candidates are called in their fixed order up to
\* the first that succeeds and no further; when mintTo raises and safeMint
\* succeeds the record goes CREATED -> MINT_PENDING -> MINTED and the stored
\* transaction hash is that of the safeMint call.
C17_FirstSuccessWins ==
    (mintJob.pc = "done" /\ mintJob.attempt.calls # << >>) =>
        /\ mintJob.chain = "mintTo" =>
              /\ mintJob.attempt.calls = << "mintTo" >>
              /\ mintJob.row.transactionHash = TxOf("mintTo")
        /\ mintJob.chain = "safeMint" =>
              /\ mintJob.attempt.calls = << "mintTo", "safeMint" >>
              /\ mintJob.history = << "CREATED", "MINT_PENDING", "MINTED" >>
              /\ mintJob.row.transactionHash = TxOf("safeMint")
              /\ mintJob.result.success
              /\ mintJob.result.transactionHash = TxOf("safeMint")

C17_Witness ==
    /\ mintJob.pc = "done"
    /\ mintJob.chain = "safeMint"
    /\ mintJob.attempt.calls = << "mintTo", "safeMint" >>
    /\ mintJob.row.status = "MINTED"

\* C18. When every candidate fails the record goes to MINT_FAILED and the
\* error returned is the error of the last candidate tried.
C18_AllFailLastError ==
    (mintJob.pc = "done" /\ mintJob.chain = "none" /\
     mintJob.attempt.calls # << >>)
    => /\ mintJob.attempt.calls = MintMethods
       /\ mintJob.row.status = "MINT_FAILED"
       /\ mintJob.result.returned
       /\ ~mintJob.result.success
       /\ mintJob.result.error =
             << "Mint transaction failed", ErrOf(MintMethods[Len(MintMethods)]) >>

C18_Witness ==
    /\ mintJob.pc = "done"
    /\ mintJob.chain = "none"
    /\ mintJob.attempt.calls = MintMethods
    /\ mintJob.row.status = "MINT_FAILED"

NothingToMintWith(m) ==
    \/ ~Truthy(m.row.privyWalletAddress)
    \/ /\ ~Truthy(m.row.contractAddress)
       /\ ~Truthy(m.variantContract)
       /\ ~Truthy(m.cfg.defaultContract)

\* C19. Mint preflight: with the environment valid, a record without a
\* recipient wallet, or for which neither the record, nor the variant, nor
\* the global default gives a contract address, gets no chain call, goes to
\* MINT_FAILED, and the call returns a failed result with the error message.
C19_PreflightFails ==
    (mintJob.pc = "done" /\ mintJob.result.returned /\
     EnsureEnv(mintJob.cfg) = << >> /\ NothingToMintWith(mintJob))
    => /\ mintJob.attempt.calls = << >>
       /\ mintJob.row.status = "MINT_FAILED"
       /\ ~mintJob.result.success
       /\ mintJob.result.error \in { NoRecipient, NoContract }
       /\ mintJob.result.error = NoRecipient
             <=> ~Truthy(mintJob.row.privyWalletAddress)

\* A record with a wallet and no contract address anywhere.
C19_Witness ==
    /\ mintJob.pc = "done"
    /\ mintJob.result.returned
    /\ Truthy(mintJob.row.privyWalletAddress)
    /\ mintJob.result.error = NoContract
    /\ mintJob.row.status = "MINT_FAILED"

\* C20. Minting failure never crashes the caller: on every failure, a store
\* error on a write included, mintDigitalIdOnBase returns a failed result
\* and the mint trigger does not raise into the issuance.
C20_NeverRaises ==
    /\ ~mintJob.raised
    /\ (mintJob.pc = "done" /\ mintJob.attempt.error # << >>)
          => (mintJob.result.returned /\ ~mintJob.result.success)

-----------------------------------------------------------------------------
(* Issuance: quantity expansion and per-line-item failures *)

\* The records of a table that belong to a line item.
RecordsOfItem(tbl, lineItem) ==
    { i \in 1..Len(tbl) : tbl[i].shopifyLineItemId[2] = lineItem.id }

\* The keys the records of a line item of quantity N are to carry: the GID
\* qualified by 1..N when N > 1, the bare GID when N = 1.
ExpectedKeys(lineItem) ==
    IF lineItem.quantity > 1
    THEN { << "LineItem", lineItem.id, j >> : j \in 1..lineItem.quantity }
    ELSE { << "LineItem", lineItem.id, 0 >> }

\* C21. Quantity expansion: after a first call in which no create failed, a
\* line item of quantity N with a resolvable variant has exactly N records,
\* keyed by the line-item id qualified by 1..N (unqualified when N = 1), and
\* the keys of all records of the order are pairwise distinct.
C21_QuantityExpansion ==
    (issue.calls >= 1 /\ ~issue.firstFaulted) =>
        /\ \A k \in 1..Len(IssueItems) :
              Issuable(IssueItems[k]) =>
                 /\ Cardinality(RecordsOfItem(issue.first, IssueItems[k]))
                       = IssueItems[k].quantity
                 /\ { issue.first[i].shopifyLineItemId :
                        i \in RecordsOfItem(issue.first, IssueItems[k]) }
                       = ExpectedKeys(IssueItems[k])
        /\ \A i, j \in 1..Len(issue.first) :
              issue.first[i].shopifyLineItemId =
                 issue.first[j].shopifyLineItemId => i = j

\* A first call over a line item of quantity 2 has stored both units.
C21_Witness ==
    /\ issue.calls >= 1
    /\ ~issue.firstFaulted
    /\ \E k \in 1..Len(IssueItems) :
          /\ IssueItems[k].quantity = 2
          /\ Cardinality(RecordsOfItem(issue.first, IssueItems[k])) = 2

-----------------------------------------------------------------------------
(* The processor: step-local failures, ordering and the RawEvent's end *)

\* C22. Wallet provisioning failure never aborts the job: whenever the
\* provisioning call does not succeed, by an unsuccessful result or by
\* raising, the Orders3fa goes to FAILED_WALLET_PROVISIONING and the job
\* goes on to the mirroring of the order.
C22_WalletFailureContinues ==
    [][ \A w \in Workers :
          ( /\ worker[w].pc = "walletCall"
            /\ worker'[w].pc # "walletCall"
            /\ orders3fa'[worker[w].ord].status # "WALLET_PROVISIONED" )
          => /\ orders3fa'[worker[w].ord].status = "FAILED_WALLET_PROVISIONING"
             /\ worker'[w].pc = "mirrorOrder" ]_vars

\* C23. Notification step: a send that raises does not fail the job and
\* leaves smsNotificationSentAt unset; a send that returns, and a simulated
\* send when the provider is not configured, stamp it; in all three cases
\* the step changes nothing else and hands over to wallet provisioning.
C23_NotificationStep ==
    [][ \A w \in Workers :
          (worker[w].pc = "sms" /\ worker'[w].pc # "sms") =>
             LET ord == worker[w].ord
             IN  /\ worker'[w].pc = "wallet"
                 /\ worker' = [ worker EXCEPT ![w].pc = "wallet",
                                              ![w].sms = worker'[w].sms ]
                 /\ worker'[w].sms \in SmsOutcomes
                 /\ worker'[w].sms = "raised" =>
                       ~orders3fa'[ord].smsNotificationSentAt
                 /\ worker'[w].sms \in { "sent", "simulated" } =>
                       orders3fa'[ord].smsNotificationSentAt
                 /\ [ orders3fa' EXCEPT ![ord].smsNotificationSentAt =
                         orders3fa[ord].smsNotificationSentAt ] = orders3fa
                 /\ UNCHANGED << queue, pendingFailed, webhookEvents,
                                 users3fa, shopifyOrders, shopifyLineItems,
                                 digitalIds >> ]_vars

\* The provider raised and the job is at wallet provisioning, unstamped.
C23_Witness ==
    \E w \in Workers :
        /\ worker[w].pc = "walletCall"
        /\ worker[w].sms = "raised"
        /\ ~orders3fa[worker[w].ord].smsNotificationSentAt

\* The step of the saga a position of processor() belongs to.
StepOf(pc) ==
    CASE pc = "fetch" -> 1
      [] pc = "customer" -> 2
      [] pc = "user" -> 3
      [] pc = "createOrder" -> 4
      [] pc = "sms" -> 5
      [] pc \in { "wallet", "walletCall" } -> 6
      [] pc \in { "mirrorOrder", "mirrorDelete", "mirrorCreate" } -> 7
      [] pc \in { "readItems", "issue" } -> 8
      [] pc = "finalize" -> 9
      [] OTHER -> 0

\* The Orders3fa of a job exists from the notification step on and not
\* before, so no later write targets a missing record.
OrderExistsFromStep5 ==
    \A w \in Workers :
        /\ StepOf(worker[w].pc) >= 5 => worker[w].ord \in 1..Len(orders3fa)
        /\ StepOf(worker[w].pc) \in 1..4 => worker[w].ord = 0

\* The moves of a job execution between the steps, and the writes to the
\* Orders3fa that each step may make.
StepsInOrder ==
    \A w \in Workers :
      LET pc == worker[w].pc
          pn == worker'[w].pc
      IN  /\ (pc = "idle" /\ pn # "idle") => StepOf(pn) = 1
          /\ (pc # "idle" /\ pn # "idle" /\ pn # pc) =>
                StepOf(pn) \in { StepOf(pc), StepOf(pc) + 1 }
          /\ (pc # "idle" /\ pn = "idle" /\
              queue'[worker[w].job].state = "completed") =>
                StepOf(pc) = 9
          /\ \A i \in 1..Len(orders3fa) :
                /\ orders3fa'[i].smsNotificationSentAt #
                      orders3fa[i].smsNotificationSentAt =>
                      /\ StepOf(pc) = 5
                      /\ i = worker[w].ord
                      /\ orders3fa[i].status = "PROCESSING"
                /\ orders3fa'[i].status # orders3fa[i].status =>
                      /\ StepOf(pc) \in 6..8
                      /\ i = worker[w].ord

C25_CompletionMarksProcessed ==
    [][ \A j \in 1..Len(queue) :
          (queue[j].state = "active" /\ queue'[j].state = "completed") =>
             LET ev == webhookEvents'[queue[j].data.webhookEventId]
             IN  /\ ev.processed
                 /\ ev.errorCount = 0
                 /\ ev.lastError = << >> ]_vars

\* A job that failed an attempt, then completed on a retry with an Orders3fa
\* that is not COMPLETED, and whose WebhookEvent is processed and clean.
C25_Witness ==
    \E j \in 1..Len(queue), i \in 1..Len(orders3fa) :
        /\ queue[j].state = "completed"
        /\ queue[j].attemptsMade >= 1
        /\ orders3fa[i].status \in
              { "FAILED_UDI_CREATION", "PARTIALLY_COMPLETED" }
        /\ webhookEvents[queue[j].data.webhookEventId].processed
        /\ webhookEvents[queue[j].data.webhookEventId].errorCount = 0

\* C26. When a job has thrown and its attempts are exhausted, once the
\* write of the 'failed' listener has landed the WebhookEvent is not
\* processed and both its lastError and its errorCount record the failure.
C26_ExhaustionRecorded ==
    \A j \in 1..Len(queue) :
        ( /\ queue[j].state = "failed"
          /\ \A p \in pendingFailed : p.ev # queue[j].data.webhookEventId )
        => LET ev == webhookEvents[queue[j].data.webhookEventId]
           IN  /\ ~ev.processed
               /\ ev.lastError # << >>
               /\ ev.errorCount > 0

-----------------------------------------------------------------------------
(* Issuance: line items that cannot be issued *)

\* The units of the line items from k on that carry no variant reference.
RECURSIVE UnitsWithoutVariant(_, _)
UnitsWithoutVariant(lineItems, k) ==
    IF k > Len(lineItems) THEN 0
    ELSE (IF Truthy(lineItems[k].variant_id) THEN 0
          ELSE lineItems[k].quantity)
         + UnitsWithoutVariant(lineItems, k + 1)

\* C27. A line item without a variant reference gets no record, its units
\* are counted in `failed`, and the other line items of the call are still
\* issued.
C27_NoVariantCountsFailed ==
    issue.calls >= 1 =>
        /\ \A k \in 1..Len(IssueItems) :
              ~Truthy(IssueItems[k].variant_id) =>
                  RecordsOfItem(digitalIds, IssueItems[k]) = { }
        /\ lastIssue.failed >= UnitsWithoutVariant(IssueItems, 1)
        /\ ~issue.firstFaulted => FullyIssued(issue.first, IssueItems)

\* The units of the line items from k on whose variant is referenced but is
\* not in the catalog, or is there without a brand.
RECURSIVE UnitsWithoutCatalog(_, _)
UnitsWithoutCatalog(lineItems, k) ==
    IF k > Len(lineItems) THEN 0
    ELSE (IF Truthy(lineItems[k].variant_id) /\ ~Issuable(lineItems[k])
          THEN lineItems[k].quantity ELSE 0)
         + UnitsWithoutCatalog(lineItems, k + 1)

ItemFullyIssued(tbl, lineItem) ==
    \A i \in 0..(lineItem.quantity - 1) :
        DigitalIdStored(tbl, UniqueLineItemIdOf(lineItem, i))

\* C28. createDigitalIdsForOrder never raises for the failure of a unit:
\* a line item whose variant is not found or lacks its brand, or one of
\* whose creates fails, adds its quantity to `failed`, and every other line
\* item of the list is still issued.
C28_UnitFailuresCounted ==
    /\ ~issue.raised
    /\ issue.calls = 1 =>
          \/ /\ lastIssue.failed = UnitsWithoutCatalog(IssueItems, 1)
             /\ FullyIssued(issue.first, IssueItems)
          \/ /\ issue.firstFaulted
             /\ \E k \in 1..Len(IssueItems) :
                   /\ Issuable(IssueItems[k])
                   /\ ~ItemFullyIssued(issue.first, IssueItems[k])
                   /\ lastIssue.failed =
                         UnitsWithoutCatalog(IssueItems, 1)
                            + IssueItems[k].quantity
                   /\ \A m \in 1..Len(IssueItems) :
                         (m # k /\ Issuable(IssueItems[m])) =>
                            ItemFullyIssued(issue.first, IssueItems[m])

\* A first call in which the first line item's create failed and a later
\* line item was issued.
C28_Witness ==
    /\ issue.calls = 1
    /\ issue.firstFaulted
    /\ lastIssue.failed > 0
    /\ lastIssue.created > 0
    /\ Len(IssueItems) >= 2
    /\ ~ItemFullyIssued(issue.first, IssueItems[1])
    /\ ItemFullyIssued(issue.first, IssueItems[2])

-----------------------------------------------------------------------------
(* The processor: the issuance step under store faults *)

\* C29. When the store raises during the issuance attempt (on a create of
\* createDigitalIdsForOrder or on the write of the final status), the
\* Orders3fa ends at FAILED_UDI_CREATION_ERROR and the job goes on to its
\* final step.
C29_SystemicFaultRecorded ==
    [][ \A w \in Workers :
          (worker[w].pc = "issue" /\ faults' > faults) =>
             /\ worker'[w].pc = "finalize"
             /\ orders3fa'[worker[w].ord].status =
                   "FAILED_UDI_CREATION_ERROR" ]_vars

\* The branch of lines 664-675 is dead: the processor writes
\* FAILED_PREREQUISITES_FOR_UDI in no execution.
PrerequisiteStatusNeverWritten ==
    \A i \in 1..Len(orders3fa) :
        orders3fa[i].status # "FAILED_PREREQUISITES_FOR_UDI"

\* C30. A job whose prerequisites for the issuance are missing (here: no
\* User3fa could be established) is not aborted: it goes on to the issuance
\* step, which skips the issuance and records
\* FAILED_PREREQUISITES_FOR_UDI on the Orders3fa if there is one.
C30_MissingPrerequisitesRecorded ==
    [][ \A w \in Workers :
          (worker[w].pc = "createOrder" /\ worker[w].user = Null) =>
              worker'[w].pc # "idle" ]_vars

-----------------------------------------------------------------------------
(* The saga end to end *)

\* C31. End-to-end scenario: for order 1001 with one line item of quantity
\* 2, a phone, a wallet that is provisioned and a configured mint whose first
\* method succeeds, once the job has completed there is one Orders3fa, at
\* COMPLETED and stamped with the one notification, two UniqueDigitalId
\* records, both MINTED by mintTo, and the wallet address is on the User3fa
\* and on both records.
C31_Scenario ==
    \A j \in 1..Len(queue) :
        queue[j].state = "completed" =>
            /\ Len(queue) = 1
            /\ queue[j].attemptsMade = 0
            /\ Len(orders3fa) = 1
            /\ orders3fa[1].status = "COMPLETED"
            /\ orders3fa[1].smsNotificationSentAt
            /\ orders3fa[1].totalItems = 2
            /\ DOMAIN users3fa = { "+1555" }
            /\ users3fa["+1555"] = WalletOf("+1555")
            /\ Len(digitalIds) = 2
            /\ \A i \in 1..2 :
                  /\ digitalIds[i].status = "MINTED"
                  /\ digitalIds[i].transactionHash = TxOf("mintTo")
                  /\ digitalIds[i].privyWalletAddress = WalletOf("+1555")
                  /\ digitalIds[i].owner3faId = "+1555"
                  /\ digitalIds[i].shopifyOrderId = 1001
            /\ digitalIds[1].shopifyLineItemId # digitalIds[2].shopifyLineItemId

C31_Witness ==
    /\ Len(queue) = 1
    /\ queue[1].state = "completed"
    /\ Len(digitalIds) = 2
    /\ orders3fa[1].status = "COMPLETED"
    /\ webhookEvents[queue[1].data.webhookEventId].processed

\* C32. WebhookEvent frame: no step of intake, of the worker or of the
\* 'failed' listener removes a WebhookEvent or changes its eventId, shopId,
\* topic or payload; only processed, processedAt, errorCount and lastError
\* are written.
C32_RawEventFrame ==
    [][ /\ Len(webhookEvents') >= Len(webhookEvents)
        /\ \A i \in 1..Len(webhookEvents) :
              /\ webhookEvents'[i].eventId = webhookEvents[i].eventId
              /\ webhookEvents'[i].shopId = webhookEvents[i].shopId
              /\ webhookEvents'[i].topic = webhookEvents[i].topic
              /\ webhookEvents'[i].payload = webhookEvents[i].payload
              /\ DOMAIN webhookEvents'[i] = DOMAIN webhookEvents[i] ]_vars

\* An event written by the 'failed' listener and then by the final step of
\* a retry, with a second event stored beside it.
C32_Witness ==
    /\ Len(webhookEvents) = 2
    /\ \E j \in 1..Len(queue) :
          /\ queue[j].state = "completed"
          /\ queue[j].attemptsMade >= 1
          /\ pendingFailed = { }
          /\ webhookEvents[queue[j].data.webhookEventId].processed
          /\ webhookEvents[queue[j].data.webhookEventId].payload = env.order

\* C33. Line-item mirroring is idempotent per order: whenever no execution
\* is between the deleteMany and the createMany, the mirrored line items of
\* a mirrored order are exactly the rows of the payload's line items, one
\* per line item, however many passes have run.
C33_MirrorIdempotent ==
    (\A w \in Workers : worker[w].pc \notin { "mirrorDelete", "mirrorCreate" })
    => \A o \in shopifyOrders :
          RowsOfOrder(shopifyLineItems, o) =
             MirrorRows(o, env.order.line_items)

\* A second pass has mirrored the three line items again, after the first
\* pass was aborted behind its mirroring.
C33_Witness ==
    \E w \in Workers :
        /\ worker[w].pc = "readItems"
        /\ queue[worker[w].job].attemptsMade = 1
        /\ Len(shopifyLineItems) = 3
        /\ \E i \in 1..Len(orders3fa) :
              orders3fa[i].status \in
                 { "WALLET_PROVISIONED", "FAILED_WALLET_PROVISIONING" }
              /\ i # worker[w].ord

-----------------------------------------------------------------------------
(* createDigitalIdsForOrder: the counts of a call, under SpecIssue *)

\* The units of the line items from k on.
RECURSIVE UnitsOf(_, _)
UnitsOf(lineItems, k) ==
    IF k > Len(lineItems) THEN 0
    ELSE lineItems[k].quantity + UnitsOf(lineItems, k + 1)

\* C34. The counts of a call are exact: over line items that all carry a
\* variant reference, `created` plus `failed` of the first call is the
\* number of purchased units, and `created` is the number of records the
\* call persisted.
C34_CountsExact ==
    (/\ issue.calls = 1
     /\ \A k \in 1..Len(IssueItems) : Truthy(IssueItems[k].variant_id))
    => /\ lastIssue.created + lastIssue.failed = UnitsOf(IssueItems, 1)
       /\ lastIssue.created = Len(digitalIds)

-----------------------------------------------------------------------------
(* The processor: what COMPLETED stands for, under Spec *)

\* C35. An OrderRecord is COMPLETED only if a record was issued for it and
\* every purchased unit of every mirrored line item has its DigitalIdentity
\* record.
C35_CompletedMeansAllIssued ==
    \A i \in 1..Len(orders3fa) :
        orders3fa[i].status = "COMPLETED" =>
            /\ \E d \in 1..Len(digitalIds) : digitalIds[d].orders3faId = i
            /\ \A k \in 1..Len(shopifyLineItems) :
                  ItemFullyIssued(digitalIds, shopifyLineItems[k])

-----------------------------------------------------------------------------
(* The 'failed' listener and the final write, under Spec *)

\* C36. A WebhookEvent whose job has completed, and which is processed with
\* no last error, stays processed with no last error.
C36_ProcessedStays ==
    [][ \A j \in 1..Len(queue) :
          LET id == queue[j].data.webhookEventId
          IN  ( /\ queue[j].state = "completed"
                /\ webhookEvents[id].processed
                /\ webhookEvents[id].lastError = << >> )
              => /\ webhookEvents'[id].processed
                 /\ webhookEvents'[id].lastError = << >> ]_vars

-----------------------------------------------------------------------------
(* Progress: the saga with a worker that keeps running *)

\* The steps of the worker process: the processor between two awaits and
\* the landing of a write its 'failed' listener started.
WorkerNext ==
    \/ \E w \in Workers : Pickup(w)
    \/ \E w \in Workers : Fetch(w)
    \/ \E w \in Workers : UpsertCustomer(w)
    \/ \E w \in Workers, found \in BOOLEAN : FindOrCreateUser(w, found)
    \/ \E w \in Workers : CreateOrders3fa(w)
    \/ \E w \in Workers, sms \in SmsOutcomes : SendSms(w, sms)
    \/ \E w \in Workers : WalletPending(w)
    \/ \E w \in Workers, result \in WalletResults : WalletCall(w, result)
    \/ \E w \in Workers, storeOk \in BOOLEAN : MirrorOrder(w, storeOk)
    \/ \E w \in Workers : MirrorDelete(w)
    \/ \E w \in Workers : MirrorCreate(w)
    \/ \E w \in Workers : ReadItems(w, TRUE)
    \/ \E w \in Workers :
          \E faultKey \in FaultKeys(w), mintConfigured \in BOOLEAN,
             chain \in ChainOutcomes :
              IssueDigitalIds(w, faultKey, mintConfigured, chain, "ok")
    \/ \E w \in Workers : Finalize(w)
    \/ FailedListenerWrite

\* What every step of the worker process changes: a processor's position,
\* a job's state, or the number of listener writes on their way.
workerProgress ==
    << [ w \in Workers |-> worker[w].pc ],
       [ j \in 1..Len(queue) |-> << queue[j].state, queue[j].attemptsMade >> ],
       Cardinality(pendingFailed) >>

\* The worker started by startWorker() takes jobs for as long as the process
\* runs, and every promise it awaits settles; webhook deliveries are the
\* environment's and come or not, and the store and the queue answer every
\* call of the webhook handler.
NextLive ==
    \/ \E rq \in { r \in Requests(env.order) : r.fault = "none" } :
          Deliver(rq)
    \/ WorkerNext

SpecLive == Init /\ [][NextLive]_vars /\ WF_workerProgress(WorkerNext)

\* C37. Every stored WebhookEvent is eventually marked processed or given a
\* last error.
C37_EventuallySettled ==
    \A i \in 1..MaxEvents :
        [](i <= Len(webhookEvents)
           => <>(/\ i <= Len(webhookEvents)
                 /\ \/ webhookEvents[i].processed
                    \/ webhookEvents[i].lastError # << >>))

-----------------------------------------------------------------------------
(* Minting: the recorded outcome and the chain, under SpecMintFaults *)

\* C38. A DigitalIdentity is at MINT_FAILED only if no candidate method
\* succeeded on chain: a record whose attempt called the contract and ended
\* without an error is not MINT_FAILED.
C38_FailedOnlyWithoutTransaction ==
    (/\ mintJob.pc = "done"
     /\ mintJob.attempt.calls # << >>
     /\ mintJob.attempt.error = << >>)
    => mintJob.row.status # "MINT_FAILED"

-----------------------------------------------------------------------------
(* Two executions of one job: the read of the mirrored line items *)

\* C39. The line items an execution has read for the issuance are the
\* complete set of the payload's line items, also when another execution of
\* the job is mirroring at the same time.
C39_ReadsCompleteLineItems ==
    \A w \in Workers \cup StallWorkers :
        worker[w].pc = "issue" =>
            worker[w].items =
               MirrorRows(worker[w].orderDb, PayloadOf(w).line_items)

-----------------------------------------------------------------------------
(* The processor: the phone of a job that came through intake *)

WalletOutcomes == { "WALLET_PROVISIONED", "FAILED_WALLET_PROVISIONING" }

\* The worker has resolved a phone for every job it is processing, and no
\* Orders3fa is at FAILED_NO_PHONE_FOR_WALLET.
PhoneAlwaysResolved ==
    /\ \A w \in Workers :
          worker[w].pc \notin { "idle", "fetch" } => Truthy(worker[w].phone)
    /\ \A i \in 1..Len(orders3fa) :
          orders3fa[i].status # "FAILED_NO_PHONE_FOR_WALLET"

\* A wallet-outcome status is written over PENDING_WALLET only.
OutcomeAfterPending ==
    \A i \in 1..Len(orders3fa) :
        ( /\ orders3fa'[i].status \in WalletOutcomes
          /\ orders3fa'[i].status # orders3fa[i].status )
        => orders3fa[i].status = "PENDING_WALLET"

\* C40. For every job enqueued by intake the worker resolves a phone from
\* the stored payload: no Orders3fa takes FAILED_NO_PHONE_FOR_WALLET, and a
\* wallet-outcome status always follows PENDING_WALLET.
C40_PhoneResolvedForIntakeJobs ==
    /\ []PhoneAlwaysResolved
    /\ [][OutcomeAfterPending]_vars

\* The wallet step has recorded its outcome for a job whose phone sits in
\* the payload that intake stored.
C40_Witness ==
    \E w \in Workers :
        /\ worker[w].pc = "mirrorOrder"
        /\ worker[w].phone = ExtractPhone(webhookEvents[worker[w].ev].payload)
        /\ Truthy(worker[w].phone)
        /\ orders3fa[worker[w].ord].status \in WalletOutcomes

====
